---------------------------- MODULE Spec2Model ----------------------------
(***************************************************************************)
(* A model of the ftp4go client: the control channel (Send / Read /        *)
(* SendAndRead), Login, data-channel negotiation (transferCmd, makePasv,   *)
(* makePort), the four transfer operations (GetBytes, GetLines,            *)
(* StoreBytes, StoreLines) and the request pool of the tree upload.        *)
(*                                                                         *)
(* Every flow of control that uses the session is a process: process 0 is  *)
(* the caller of the public operations, processes 1.. are the goroutines   *)
(* that startServer spawns, one per queued upload request.  The server is  *)
(* the environment: for each command written to the control channel it     *)
(* queues the replies it will give, and the client reads them in order.    *)
(***************************************************************************)
EXTENDS Naturals, Integers, Sequences, FiniteSets, TLC

\* ------------------------------------------------------------------ bounds
\* Files of the directory being uploaded: one goroutine per request.
MaxFiles == 2
\* Largest worker count maxSimultaneousConns that is tried.
MaxWorkers == 2
\* Unread replies that may be left on the control channel when the caller
\* starts its next public operation.
MaxStale == 1

\* Process 0 is the caller of the public operations.
Procs == 0..MaxFiles
Workers == 1..MaxFiles

VARIABLES
    pc,             \* pc[p]: where process p is in its code
    op,             \* op[p]: the public operation p is running, with its command
    resp,           \* resp[p]: the *Response in hand (Nil for a nil pointer)
    err,            \* err[p]: the error in hand (NoErr for nil)
    conn,           \* conn[p]: the data connection of p's transfer
    lsn,            \* lsn[p]: the listener of p's transfer (active mode)
    sent,           \* sent[p]: commands p wrote during its current operation
    rcvd,           \* rcvd[p]: replies p consumed during its current operation
    dials,          \* dials[p]: data connections p opened during its operation
    finals,         \* finals[p]: final replies p consumed after its data phase
    tcOk,           \* tcOk[p]: transferCmd returned without error
    owed,           \* replies queued by the server and not yet read
    broken,         \* the control connection has failed
    passiveserver,  \* ftp.passiveserver
    srv,            \* how the server answers: "full" or "basic"
    ctx,            \* ctx[p]: who called p's operation: "top", "tree" or "worker"
    maxUploads,     \* maxSimultaneousConns of UploadDirTree
    useGoRoutines,  \* useGoRoutines of UploadDirTree
    nfiles,         \* number of files in the local directory
    idx,            \* files of the directory handled (uploaded, or queued) so far
    coll,           \* results of the directory's requests received so far
    result,         \* result[p]: the buffered resultChan of request p
    sem,            \* number of tokens in the channel sem
    serving,        \* the goroutine of startServer is in its select loop
    n,              \* *n, the count of uploaded files
    uerr,           \* the error UploadDirTree will return
    sock,           \* ftp.conn, the control socket: "none", "open" or "closed"
    addr,           \* the address Connect handed to the dialer
    rd,             \* rd[p]: the blocks or lines p's reader has still to yield
    given,          \* given[p]: the whole input of p's transfer, as bytes
    buf,            \* buf[p]: s, the buffer of the byte loops
    cbOn,           \* cbOn[p]: the callback of p's operation is not nil
    tot,            \* tot[p]: tot of the store loop
    wrote,          \* wrote[p]: the bytes p has written, to its data connection
                    \* when it stores and to its writer when it gets
    cbs,            \* cbs[p]: the CallbackInfo values the callback was given
    offset,         \* offset[p]: the byte offset at which p's download resumes
    dialed,         \* dialed[p]: the address p gave to Dial for its data connection
    codec,          \* a call of SendPort, parse227, parse257, Pwd or Mkd and its result
    reader,         \* an FtpReader in readMultiLine: the lines to come and the text
    said,           \* the calls of Send made, each with its command and parameters
    size,           \* size[p]: the size that p's call of Size returns
    writer,         \* a Writer, its bufio.Writer and what lies under that
    swd,            \* the server's working directory, a path
    pwd,            \* pwd of UploadDirTree / RemoveRemoteDirTree
    rootDir,        \* remoteRootDir (UploadDirTree) or remoteDir (RemoveRemoteDirTree)
    ltree,          \* the entries of localDir, sorted by name
    excl,           \* the caller's slice excludedDirs
    stack,          \* the activations of uploadDirTree / removeRemoteDirTree
    tlog            \* what the tree operation has done so far, in order

vars == <<pc, op, resp, err, conn, lsn, sent, rcvd, dials, finals, tcOk,
          owed, broken, passiveserver, srv,
          ctx, maxUploads, useGoRoutines, nfiles, idx, coll, result, sem, serving, n, uerr,
          sock, addr, rd, given, buf, cbOn, tot, wrote, cbs, offset, dialed, codec, reader, said, size, writer,
          swd, pwd, rootDir, ltree, excl, stack, tlog>>

\* ----------------------------------------------------------------- values
\* A file or directory name is a string of bytes; these are the names used.
lo_d == <<100>>
lo_f == <<102>>
lo_g == <<103>>
lo_h == <<104>>
lo_r == <<114>>
lo_s == <<115>>
lo_t == <<116>>
up_S == <<83>>

\* strings.ToLower on a string of ASCII bytes
ToLowerByte(b) == IF b >= 65 /\ b <= 90 THEN b + 32 ELSE b
ToLower(s) == [i \in 1..Len(s) |-> ToLowerByte(s[i])]

\* a < b for Go strings: byte-wise, a proper prefix first
RECURSIVE StrLess(_, _)
StrLess(a, b) ==
    IF b = <<>> THEN FALSE
    ELSE IF a = <<>> THEN TRUE
    ELSE IF Head(a) # Head(b) THEN Head(a) < Head(b)
    ELSE StrLess(Tail(a), Tail(b))

\* sort.StringSlice.Sort / sort.Strings: the slice in ascending order
RECURSIVE Insert(_, _)
Insert(x, l) ==
    IF l = <<>> THEN <<x>>
    ELSE IF StrLess(Head(l), x) THEN <<Head(l)>> \o Insert(x, Tail(l))
    ELSE <<x>> \o l

RECURSIVE Sort(_)
Sort(l) == IF l = <<>> THEN <<>> ELSE Insert(Head(l), Sort(Tail(l)))

\* sort.SearchStrings(a, x): binary search for the first index (from 0) with
\* a[index] >= x, as sort.Search runs it on the indices lo..hi
RECURSIVE Search(_, _, _, _)
Search(a, x, lo, hi) ==
    IF lo >= hi THEN lo
    ELSE LET h == lo + ((hi - lo) \div 2) IN
         IF StrLess(a[h + 1], x) THEN Search(a, x, h + 1, hi) ELSE Search(a, x, lo, h)

SearchStrings(a, x) == Search(a, x, 0, Len(a))

DefaultFtpPort == 21
Nil == [code |-> 0, msg |-> "nil"]
NoErr == [kind |-> "nil", text |-> "nil"]
NoOp == [name |-> "none", cmd |-> "none"]

Reply(code, msg) == [code |-> code, msg |-> msg]

Last(s) == s[Len(s)]

\* strconv.Itoa(code)[0:1] for a code >= 0, as a digit
RECURSIVE FirstDigit(_)
FirstDigit(k) == IF k < 10 THEN k ELSE FirstDigit(k \div 10)

\* (*Response).getFirstChar: "" (here 0) for a nil response
getFirstChar(r) == IF r = Nil THEN 0 ELSE FirstDigit(r.code)

NewErrReply(text) == [kind |-> "Reply error", text |-> text]
NewErrProto(text) == [kind |-> "Protocol error", text |-> text]
\* an error of the transport or of a local reader/writer: it carries no reply
IoErr == [kind |-> "io", text |-> "nil"]

\* The errors that are made from a reply of the server.
ReplyErrKinds == {"Temporary error", "Permanent error", "Protocol error", "Reply error"}

\* Read, after ReadResponse has assembled one reply (code, msg): the
\* classification by the leading digit.
ReadWrong(code, msg) ==
    LET c == FirstDigit(code) IN
    IF c \in {1, 2, 3, 4} THEN [resp |-> Reply(code, msg), err |-> NoErr]
    ELSE [resp |-> Nil, err |-> [kind |-> "Permanent error", text |-> msg]]

ReadResult(code, msg) ==
    LET c == FirstDigit(code) IN
    IF c \in {1, 2, 3} THEN [resp |-> Reply(code, msg), err |-> NoErr]
    ELSE IF c = 4 THEN [resp |-> Nil, err |-> [kind |-> "Temporary error", text |-> msg]]
    ELSE IF c = 5 THEN [resp |-> Nil, err |-> [kind |-> "Permanent error", text |-> msg]]
    ELSE [resp |-> Nil, err |-> [kind |-> "Protocol error", text |-> msg]]

\* parse227 succeeds: code 227 and a group h1,h2,h3,h4,p1,p2 in the message
parse227Lax(r) == r.code \div 100 = 2

\* No address has been given to Dial.
NoDial == [host |-> "none", port |-> 0]

\* The six numbers of the messages the server sends with 227: "hostport" is
\* "Entering Passive Mode (10,0,0,1,200,56)", the address of the server as
\* the client reaches it, and "otherhost" has (192,168,0,9,200,56), an
\* address of the server that the client cannot reach.
Groups227 == [hostport |-> <<10, 0, 0, 1, 200, 56>>, otherhost |-> <<192, 168, 0, 9, 200, 56>>]

parse227Ok(r) == r.code = 227 /\ r.msg \in DOMAIN Groups227

\* host = strings.Join(numbers[:4], "."), port = (p1 << 8) + p2
Join(g) == ToString(g[1]) \o "." \o ToString(g[2]) \o "." \o ToString(g[3]) \o "." \o ToString(g[4])

\* The host and port parse227 returns: "" and 0 with its errors.
parse227(r) ==
    IF r.code = 227 /\ r.msg \in DOMAIN Groups227
    THEN LET numbers == Groups227[r.msg]
         IN [host |-> Join(numbers), port |-> numbers[5] * 256 + numbers[6]]
    ELSE [host |-> "", port |-> 0]

\* parse150ForSize, called for a 150 reply only: strconv.Atoi fails on a
\* "(N bytes)" group whose N does not fit an int; no group is no error
parse150Fails(r) == r.code = 150 /\ r.msg = "bigsize"

\* ----------------------------------------------------------------- server
TypeCmds == {"TYPE A", "TYPE I"}
XferCmds == {"RETR", "STOR", "LIST", "NLST", "MLSD"}
LoginCmds == {"USER", "PASS", "ACCT"}
PlainCmds == {"CWD", "PWD"}

\* One reply of every leading digit a reply line can have (textproto accepts
\* codes 100..999).
AnyReply == {Reply(120, "text"), Reply(230, "text"), Reply(331, "text"),
             Reply(450, "text"), Reply(550, "text"), Reply(600, "text"),
             Reply(999, "text")}

\* What the server may answer to a transfer command: a rejection; a
\* preliminary reply and, after the data phase, a final one; the same after a
\* spurious 2xx; a 2xx followed by a rejection; or an intermediate reply.
XferScripts ==
    {<<Reply(550, "text")>>, <<Reply(450, "text")>>, <<Reply(350, "text")>>,
     <<Reply(150, "size"), Reply(226, "text")>>,
     <<Reply(150, "bigsize"), Reply(226, "text")>>,
     <<Reply(125, "text"), Reply(226, "text")>>,
     <<Reply(150, "text"), Reply(426, "text")>>,
     <<Reply(200, "text"), Reply(150, "text"), Reply(226, "text")>>,
     <<Reply(200, "text"), Reply(550, "text")>>,
     <<Reply(200, "text"), Reply(200, "text")>>}

BasicXferScripts ==
    {<<Reply(550, "text")>>, <<Reply(150, "text"), Reply(226, "text")>>,
     <<Reply(150, "text"), Reply(426, "text")>>}

ServerScript(c) ==
    IF srv = "basic" THEN
        IF c \in XferCmds THEN BasicXferScripts
        ELSE IF c = "PASV" THEN {<<Reply(227, "hostport")>>}
        ELSE IF c \in TypeCmds THEN {<<Reply(200, "text")>>}
        ELSE {<<Reply(250, "text")>>, <<Reply(550, "text")>>}
    ELSE IF c \in TypeCmds \/ c = "PORT" THEN {<<Reply(200, "text")>>, <<Reply(504, "text")>>}
    ELSE IF c = "PASV" THEN {<<Reply(227, "hostport")>>, <<Reply(227, "otherhost")>>,
                             <<Reply(227, "text")>>,
                             <<Reply(200, "text")>>, <<Reply(502, "text")>>}
    ELSE IF c \in XferCmds THEN XferScripts
    ELSE IF c = "SIZE" THEN {<<r>> : r \in AnyReply \cup {Reply(213, "1024")}}
    ELSE {<<r>> : r \in AnyReply}

Tag(s, p) == [i \in 1..Len(s) |-> [code |-> s[i].code, msg |-> s[i].msg, by |-> p]]

\* ------------------------------------------------------- control channel
Goto(p, l) == pc' = [pc EXCEPT ![p] = l]
SetResp(p, r) == resp' = [resp EXCEPT ![p] = r]
SetErr(p, e) == err' = [err EXCEPT ![p] = e]

\* Send: one command line is written to the control socket; the server queues
\* its replies to it.  A write on a failed connection writes nothing.
Dead == broken \/ sock = "closed"

SendErr == IF Dead THEN IoErr ELSE NoErr

SendChan(p, c) ==
    IF Dead
    THEN UNCHANGED <<owed, sent>>
    ELSE /\ \E s \in ServerScript(c) : owed' = owed \o Tag(s, p)
         /\ sent' = [sent EXCEPT ![p] = Append(@, c)]

\* Read: blocks until one reply is there, consumes it and classifies it; on a
\* failed connection ReadResponse returns the error and Read (nil, err).
CanRead == Dead \/ owed # <<>>

ReadRes ==
    IF Dead THEN [resp |-> Nil, err |-> IoErr]
    ELSE ReadResult(Head(owed).code, Head(owed).msg)

ReadChan(p) ==
    /\ CanRead
    /\ IF Dead
       THEN UNCHANGED <<owed, rcvd>>
       ELSE /\ owed' = Tail(owed)
            /\ rcvd' = [rcvd EXCEPT ![p] = Append(@, Head(owed))]

\* SendAndRead, first half: Send; on an error the call returns (nil, err) and
\* the process goes on at `fail`.
SendStepTo(p, c, next, fail) ==
    /\ SendChan(p, c)
    /\ SetErr(p, SendErr)
    /\ SetResp(p, IF SendErr = NoErr THEN resp[p] ELSE Nil)
    /\ Goto(p, IF SendErr = NoErr THEN next ELSE fail)
    /\ UNCHANGED rcvd

SendStep(p, c, next) == SendStepTo(p, c, next, "done")

data == <<conn, lsn, dials, finals, tcOk>>
pool == <<ctx, maxUploads, useGoRoutines, nfiles, idx, coll, result, sem, serving, n, uerr>>
sess == <<sock, addr>>
xfer == <<rd, given, buf, cbOn, tot, wrote, cbs, offset, dialed, codec, reader, said, size, writer>>
tree == <<swd, pwd, rootDir, ltree, excl, stack, tlog>>
env == <<broken, passiveserver, srv, sess, xfer, tree, pool>>

\* SendAndRead, second half, where the caller only passes the result on:
\* Read, then `next` on success and return on an error.
ReadStepTo(p, next, fail) ==
    /\ ReadChan(p)
    /\ SetResp(p, ReadRes.resp)
    /\ SetErr(p, ReadRes.err)
    /\ Goto(p, IF ReadRes.err = NoErr THEN next ELSE fail)
    /\ UNCHANGED sent

ReadStep(p, next) == ReadStepTo(p, next, "done")

\* ------------------------------------------------------ public operations
TransferOps == {"GetBytes", "GetLines", "StoreBytes", "StoreLines"}

\* The operations the caller may start, each with the command it carries.
PublicOps ==
    {[name |-> "Login", cmd |-> "USER"]}
    \cup {[name |-> "Cmd", cmd |-> c] : c \in PlainCmds}
    \cup {[name |-> "GetBytes", cmd |-> "RETR"], [name |-> "StoreBytes", cmd |-> "STOR"],
          [name |-> "StoreLines", cmd |-> "STOR"]}
    \cup {[name |-> "GetLines", cmd |-> c] : c \in {"RETR", "LIST"}}
    \cup {[name |-> "Size", cmd |-> "SIZE"]}
    \cup {[name |-> "Quit", cmd |-> "QUIT"]}

\* A binary download that resumes where the local file ends.
ResumeOp == [name |-> "DownloadResumeFile", cmd |-> "RETR"]

\* The arguments a caller may give to Connect: no host or a host, and a
\* port that is negative, zero, the default one or another one.
Hosts == {"", "h"}
Ports == {0 - 1, 0, DefaultFtpPort, DefaultFtpPort + 1}
ConnectOps == {[name |-> "Connect", cmd |-> "none", host |-> h, port |-> q] :
                  h \in Hosts, q \in Ports}

Entry(o) ==
    IF o.name = "Login" THEN "USER.send"
    ELSE IF o.name = "Connect" THEN "Connect.dial"
    ELSE IF o.name = "Quit" THEN "QUIT.send"
    ELSE IF o.name = "Cmd" THEN "cmd.send"
    ELSE IF o.name = "Size" THEN "SIZE.send"
    ELSE "TYPE.send"

StoreOps == {"StoreBytes", "StoreLines"}

\* blocksize, the length of the buffer s of the byte loops
BlockSize == 2

\* The input of a byte transfer (StoreBytes, GetBytes), as the blocks its
\* reader yields, each a string of bytes: an empty input, one of a single
\* block, one of two.  The files of a directory tree are of one block.
Files == {<<>>, <<<<7, 8>>>>, <<<<7, 8>>, <<9>>>>}
TreeFiles == {<<<<7>>>>}

\* The local file of StoreLines, as its bytes: an empty file, one line, two
\* lines of which the last has no newline, a line that ends in CR LF.
LineFiles == {<<>>, <<7, 8, 10>>, <<7, 8, 10, 9>>, <<7, 13, 10>>}
TreeLineFiles == {<<7, 10>>}

\* line, _, err := lineReader.ReadLine(), until io.EOF: the lines of the
\* input, each without its end-of-line bytes ("\n" or "\r\n"); line holds
\* the bytes of the line being read.
dropCR(line) ==
    IF line # <<>> /\ line[Len(line)] = 13 THEN SubSeq(line, 1, Len(line) - 1) ELSE line

RECURSIVE ReadLine(_, _)
ReadLine(bytes, line) ==
    IF bytes = <<>> THEN (IF line = <<>> THEN <<>> ELSE <<line>>)
    ELSE IF Head(bytes) = 10 THEN <<dropCR(line)>> \o ReadLine(Tail(bytes), <<>>)
    ELSE ReadLine(Tail(bytes), Append(line, Head(bytes)))

\* The bytes of the blocks of an input, in order.
RECURSIVE Flat(_)
Flat(blocks) == IF blocks = <<>> THEN <<>> ELSE Head(blocks) \o Flat(Tail(blocks))

\* The operations whose data phase is modelled byte by byte.
GetOps == {"GetBytes", "DownloadResumeFile"}
ByteOps == StoreOps \cup GetOps

\* The bytes a data connection yields, in blocks of at most the block size.
RECURSIVE Blocks(_)
Blocks(bytes) ==
    IF Len(bytes) <= BlockSize THEN (IF bytes = <<>> THEN <<>> ELSE <<bytes>>)
    ELSE <<SubSeq(bytes, 1, BlockSize)>> \o Blocks(SubSeq(bytes, BlockSize + 1, Len(bytes)))

\* The local file as a download finds it: DownloadFile opens it with
\* O_TRUNC, a resumed download for append.
Truncate(local) == <<>>

OpenAppend(local) == local

\* The state of a process that enters operation o: a store operation gets a
\* reader and a callback, which under UploadDirTree is the one of that call.
Enter(p, o) ==
    /\ \E f \in (IF o.name \notin ByteOps THEN {<<>>}
                 ELSE IF o.name = "StoreLines"
                 THEN (IF ctx[p] = "top" THEN LineFiles ELSE TreeLineFiles)
                 ELSE (IF ctx[p] = "top" THEN Files ELSE TreeFiles)) :
        \E k \in (IF o.name = "DownloadResumeFile" THEN 0..Len(Flat(f)) ELSE {0}) :
           /\ rd' = [rd EXCEPT ![p] = IF o.name = "StoreLines" THEN ReadLine(f, <<>>)
                                      ELSE IF o.name = "DownloadResumeFile"
                                      THEN Blocks(SubSeq(Flat(f), k + 1, Len(Flat(f))))
                                      ELSE f]
           /\ given' = [given EXCEPT ![p] = IF o.name = "StoreLines" THEN f ELSE Flat(f)]
           /\ offset' = [offset EXCEPT ![p] = k]
           /\ wrote' = [wrote EXCEPT ![p] = IF o.name = "DownloadResumeFile"
                                            THEN OpenAppend(SubSeq(Flat(f), 1, k))
                                            ELSE <<>>]
    /\ buf' = [buf EXCEPT ![p] = [i \in 1..BlockSize |-> 0]]
    /\ \E c \in (IF o.name \in StoreOps /\ ctx[p] = "top" THEN BOOLEAN ELSE {cbOn[p]}) :
           cbOn' = [cbOn EXCEPT ![p] = c]
    /\ tot' = [tot EXCEPT ![p] = 0]
    /\ cbs' = [cbs EXCEPT ![p] = <<>>]
    /\ size' = [size EXCEPT ![p] = 0]
    /\ dialed' = [dialed EXCEPT ![p] = NoDial]
    /\ UNCHANGED <<codec, reader, said, writer>>
    /\ op' = [op EXCEPT ![p] = o]
    /\ pc' = [pc EXCEPT ![p] = Entry(o)]
    /\ resp' = [resp EXCEPT ![p] = Nil]
    /\ err' = [err EXCEPT ![p] = NoErr]
    /\ conn' = [conn EXCEPT ![p] = "nil"]
    /\ lsn' = [lsn EXCEPT ![p] = "nil"]
    /\ sent' = [sent EXCEPT ![p] = <<>>]
    /\ rcvd' = [rcvd EXCEPT ![p] = <<>>]
    /\ dials' = [dials EXCEPT ![p] = 0]
    /\ finals' = [finals EXCEPT ![p] = 0]
    /\ tcOk' = [tcOk EXCEPT ![p] = FALSE]

\* The caller starts a public operation (its previous one has returned):
\* Connect on the FTP that NewFTP made, any other on a session that has a
\* control socket.
Begin ==
    /\ pc[0] \in {"idle", "done"}
    /\ ctx[0] = "top"
    /\ Len(owed) <= MaxStale
    /\ \E o \in (IF sock = "none" THEN ConnectOps ELSE PublicOps) : Enter(0, o)
    /\ UNCHANGED <<owed, broken, passiveserver, srv, sess, tree, pool>>

\* SetPassive
SetPassive ==
    /\ pc[0] \in {"idle", "done"}
    /\ ctx[0] = "top"
    /\ \E b \in BOOLEAN : b # passiveserver /\ passiveserver' = b
    /\ UNCHANGED <<pc, op, resp, err, sent, rcvd, data, owed, broken, srv, sess, xfer, tree, pool>>

\* The control connection fails (the peer resets it, the network drops).
ConnBreak ==
    /\ ~broken
    /\ sock = "open"
    /\ broken' = TRUE
    /\ UNCHANGED <<pc, op, resp, err, sent, rcvd, data, owed, passiveserver, srv, sess, xfer, tree, pool>>

\* --- a plain command: Cwd, Pwd, ... = SendAndRead(cmd)
cmd_send(p) ==
    /\ pc[p] = "cmd.send"
    /\ SendStep(p, op[p].cmd, "cmd.read")
    /\ UNCHANGED <<op, data, env>>

cmd_read(p) ==
    /\ pc[p] = "cmd.read"
    /\ ReadStep(p, "done")
    /\ UNCHANGED <<op, data, env>>

\* --- Size(filename)
\* strconv.Atoi(strings.TrimSpace(response.Message[3:])), its error dropped:
\* the message is the text after the code, and of "1024" the bytes from the
\* fourth on are "4".
SizeOf(r) == IF r.msg = "1024" THEN 4 ELSE 0

\* response, err := ftp.SendAndRead(SIZE_FTP_CMD, filename), the Send: when
\* it fails SendAndRead returns (nil, err), and response.Code is evaluated
\* on the nil response.
SIZE_send(p) ==
    /\ pc[p] = "SIZE.send"
    /\ SendStepTo(p, "SIZE", "SIZE.read", "panic")
    /\ UNCHANGED <<op, data, env>>

\* The Read, then response.Code == 213 whatever Read returned: a nil
\* response is dereferenced; with 213 the size and err are returned, else
\* (0, err).
SIZE_read(p) ==
    /\ pc[p] = "SIZE.read"
    /\ ReadChan(p)
    /\ SetResp(p, ReadRes.resp)
    /\ SetErr(p, ReadRes.err)
    /\ IF ReadRes.resp = Nil
       THEN Goto(p, "panic") /\ UNCHANGED size
       ELSE /\ Goto(p, "done")
            /\ size' = [size EXCEPT ![p] = IF ReadRes.resp.code = 213
                                           THEN SizeOf(ReadRes.resp) ELSE 0]
    /\ UNCHANGED <<sent, op, data, broken, passiveserver, srv, sess, rd, given, buf, cbOn,
                   tot, wrote, cbs, offset, dialed, codec, reader, said, writer, tree, pool>>

\* --- Connect(host, port, socks5ProxyUrl)
NoAddr == [host |-> "none", port |-> 0]

\* addr := fmt.Sprintf("%s:%d", ftp.Host, ftp.Port), where ftp.Host is the
\* host just stored and ftp.Port is what NewFTP set.
ConnectAddr(host, port) == [host |-> host, port |-> DefaultFtpPort]

\* The greeting the server queues when it accepts the connection.
Greetings == {<<Reply(220, "text")>>, <<Reply(421, "text")>>}

\* The check of host, then NewConn(addr): the dialer connects or fails.
Connect_dial(p) ==
    /\ pc[p] = "Connect.dial"
    /\ IF op[p].host = ""
       THEN /\ SetErr(p, [kind |-> "host", text |-> "The host must be specified"])
            /\ Goto(p, "done")
            /\ UNCHANGED <<owed, sock, addr>>
       ELSE /\ addr' = ConnectAddr(op[p].host, op[p].port)
            /\ \/ /\ sock' = "open"
                  /\ \E g \in Greetings : owed' = Tag(g, p)
                  /\ SetErr(p, NoErr)
                  /\ Goto(p, "Connect.read")
               \/ /\ SetErr(p, [kind |-> "dial", text |-> "nil"])
                  /\ Goto(p, "done")
                  /\ UNCHANGED <<owed, sock>>
    /\ UNCHANGED <<op, resp, sent, rcvd, data, broken, passiveserver, srv, xfer, tree, pool>>

\* resp, err = ftp.Read(NONE_FTP_CMD)
Connect_read(p) ==
    /\ pc[p] = "Connect.read"
    /\ ReadStep(p, "done")
    /\ UNCHANGED <<op, data, env>>

\* --- Quit: SendAndRead(QUIT), then ftp.conn.Close() whatever the outcome
QuitExitLax(e) == IF e = NoErr THEN "closed" ELSE "open"

QuitExit(e) == "closed"

QUIT_send(p) ==
    /\ pc[p] = "QUIT.send"
    /\ SendStep(p, "QUIT", "QUIT.read")
    /\ sock' = IF SendErr = NoErr THEN sock ELSE QuitExit(SendErr)
    /\ UNCHANGED <<op, data, broken, passiveserver, srv, addr, xfer, tree, pool>>

QUIT_read(p) ==
    /\ pc[p] = "QUIT.read"
    /\ ReadStep(p, "done")
    /\ sock' = QuitExit(ReadRes.err)
    /\ UNCHANGED <<op, data, broken, passiveserver, srv, addr, xfer, tree, pool>>

\* --- Login
USER_send(p) ==
    /\ pc[p] = "USER.send"
    /\ SendStep(p, "USER", "USER.read")
    /\ UNCHANGED <<op, data, env>>

\* The end of Login: the reply in hand must be of class 2.
LoginCheckLax(p, r) ==
    IF getFirstChar(r) \notin {2, 3}
    THEN /\ SetErr(p, NewErrReply(r.msg)) /\ SetResp(p, Nil) /\ Goto(p, "done")
    ELSE /\ SetErr(p, NoErr) /\ SetResp(p, r) /\ Goto(p, "done")

LoginCheck(p, r) ==
    IF getFirstChar(r) # 2
    THEN /\ SetErr(p, NewErrReply(r.msg)) /\ SetResp(p, Nil) /\ Goto(p, "done")
    ELSE /\ SetErr(p, NoErr) /\ SetResp(p, r) /\ Goto(p, "done")

\* Login after a SendAndRead: return on an error; send `more` on a class 3
\* reply (when there is a further command); otherwise the final check.
LoginRead(p, more) ==
    /\ ReadChan(p)
    /\ IF ReadRes.err # NoErr
       THEN /\ SetErr(p, ReadRes.err) /\ SetResp(p, Nil) /\ Goto(p, "done")
       ELSE IF more # "none" /\ getFirstChar(ReadRes.resp) = 3
       THEN /\ SetErr(p, NoErr) /\ SetResp(p, ReadRes.resp) /\ Goto(p, more)
       ELSE LoginCheck(p, ReadRes.resp)
    /\ UNCHANGED <<sent, op, data, env>>

USER_read(p) == pc[p] = "USER.read" /\ LoginRead(p, "PASS.send")

PASS_send(p) ==
    /\ pc[p] = "PASS.send"
    /\ SendStep(p, "PASS", "PASS.read")
    /\ UNCHANGED <<op, data, env>>

PASS_read(p) == pc[p] = "PASS.read" /\ LoginRead(p, "ACCT.send")

ACCT_send(p) ==
    /\ pc[p] = "ACCT.send"
    /\ SendStep(p, "ACCT", "ACCT.read")
    /\ UNCHANGED <<op, data, env>>

ACCT_read(p) == pc[p] = "ACCT.read" /\ LoginRead(p, "none")

\* --- the transfer operations: GetBytes, GetLines, StoreBytes, StoreLines
\* The representation type set before the transfer.
TypeWrong(name) == "TYPE I"

TypeCmdOf(name) == IF name \in {"GetLines", "StoreLines"} THEN "TYPE A" ELSE "TYPE I"

TYPE_send(p) ==
    /\ pc[p] = "TYPE.send"
    /\ SendStep(p, TypeCmdOf(op[p].name), "TYPE.read")
    /\ UNCHANGED <<op, data, env>>

TYPE_read(p) ==
    /\ pc[p] = "TYPE.read"
    /\ ReadStep(p, IF op[p].name = "DownloadResumeFile" THEN "REST.send" ELSE "tc.begin")
    /\ UNCHANGED <<op, data, env>>

\* --- a resumed binary download: REST with the offset, a round trip of its
\* own before the data channel is negotiated; its error ends the download.
RestCmd(k) == "REST " \o <<"0", "1", "2", "3", "4", "5", "6", "7", "8", "9">>[k + 1]

REST_send(p) ==
    /\ pc[p] = "REST.send"
    /\ SendStep(p, RestCmd(offset[p]), "REST.read")
    /\ UNCHANGED <<op, data, env>>

REST_read(p) ==
    /\ pc[p] = "REST.read"
    /\ ReadStep(p, "tc.begin")
    /\ UNCHANGED <<op, data, env>>

\* --- transferCmd, passive mode: makePasv, then dial
PASV_send(p) ==
    /\ pc[p] = "tc.begin"
    /\ passiveserver
    /\ SendStep(p, "PASV", "PASV.read")
    /\ UNCHANGED <<op, data, env>>

\* makePasv's Read and parse227; transferCmd returns (nil, -1, error) on an
\* error of either.
PASV_read(p) ==
    /\ pc[p] = "PASV.read"
    /\ ReadChan(p)
    /\ SetResp(p, ReadRes.resp)
    /\ IF ReadRes.err # NoErr
       THEN SetErr(p, ReadRes.err) /\ Goto(p, "done")
       ELSE IF ~parse227Ok(ReadRes.resp)
       THEN SetErr(p, NewErrProto(ReadRes.resp.msg)) /\ Goto(p, "done")
       ELSE SetErr(p, NoErr) /\ Goto(p, "tc.dial")
    /\ UNCHANGED <<sent, op, data, env>>

\* ftp.conn.LocalAddr().Network(), the name of the network of the control
\* connection
Network == "tcp"

\* The host of the 227 reply is replaced by ftp.Host when it differs from
\* ftp.conn.LocalAddr().Network(); addr := fmt.Sprintf("%s:%d", host, port).
DataAddr(r) ==
    [host |-> IF Network # parse227(r).host THEN addr.host ELSE parse227(r).host,
     port |-> parse227(r).port]

\* ftp.dialer.Dial: the data connection, or an error with which transferCmd
\* returns.
tc_dial(p) ==
    /\ pc[p] = "tc.dial"
    /\ dialed' = [dialed EXCEPT ![p] = DataAddr(resp[p])]
    /\ \/ /\ conn' = [conn EXCEPT ![p] = "open"]
          /\ dials' = [dials EXCEPT ![p] = @ + 1]
          /\ Goto(p, "tc.cmd.send")
          /\ UNCHANGED err
       \/ /\ SetErr(p, IoErr)
          /\ Goto(p, "done")
          /\ UNCHANGED <<conn, dials>>
    /\ UNCHANGED <<op, resp, sent, rcvd, lsn, finals, tcOk, owed, broken, passiveserver, srv,
                   sess, rd, given, buf, cbOn, tot, wrote, cbs, offset, codec, reader, said, size, writer, tree, pool>>

\* --- transferCmd, active mode: makePort = runServer (net.Listen), SendPort
\* A failing net.Listen ends the process (log.Fatalf in runServer).
tc_listen(p) ==
    /\ pc[p] = "tc.begin"
    /\ ~passiveserver
    /\ \/ /\ lsn' = [lsn EXCEPT ![p] = "open"]
          /\ Goto(p, "PORT.send")
       \/ /\ Goto(p, "exit")
          /\ UNCHANGED lsn
    /\ UNCHANGED <<op, resp, err, sent, rcvd, conn, dials, finals, tcOk, owed, env>>

\* makePort returns (list, err): transferCmd returns on the error, and the
\* listener stays as it is.
PORT_send(p) ==
    /\ pc[p] = "PORT.send"
    /\ SendStep(p, "PORT", "PORT.read")
    /\ UNCHANGED <<op, data, env>>

PORT_read(p) ==
    /\ pc[p] = "PORT.read"
    /\ ReadStep(p, "tc.cmd.send")
    /\ UNCHANGED <<op, data, env>>

\* --- transferCmd: the transfer command and its reply
tc_cmd_send(p) ==
    /\ pc[p] = "tc.cmd.send"
    /\ SendStep(p, op[p].cmd, "tc.cmd.read")
    /\ UNCHANGED <<op, data, env>>

\* The end of transferCmd, with the class 1 reply r and the connection in
\* hand: parse150ForSize for a 150 reply, and return (conn, size, err).
tcReturn(p, r) ==
    IF parse150Fails(r)
    THEN /\ SetErr(p, [kind |-> "local", text |-> "nil"])
         /\ Goto(p, "done")
         /\ UNCHANGED tcOk
    ELSE /\ SetErr(p, NoErr)
         /\ Goto(p, "stream")
         /\ tcOk' = [tcOk EXCEPT ![p] = TRUE]

\* The check of the reply in hand: it must be of class 1.  resp.Message of a
\* nil response is a nil pointer dereference: the process panics.
tcCheck(p, r) ==
    IF getFirstChar(r) # 1
    THEN /\ IF r = Nil
            THEN Goto(p, "panic") /\ UNCHANGED err
            ELSE SetErr(p, NewErrReply(r.msg)) /\ Goto(p, "done")
         /\ UNCHANGED tcOk
    ELSE IF lsn[p] = "open"
    THEN Goto(p, "tc.accept") /\ SetErr(p, NoErr) /\ UNCHANGED tcOk
    ELSE tcReturn(p, r)

\* SendAndRead(cmd)'s Read: return on an error (resp = nil); a class 2 reply
\* is discarded by reading once more.
tc_cmd_read(p) ==
    /\ pc[p] = "tc.cmd.read"
    /\ ReadChan(p)
    /\ SetResp(p, ReadRes.resp)
    /\ IF ReadRes.err # NoErr
       THEN SetErr(p, ReadRes.err) /\ Goto(p, "done") /\ UNCHANGED tcOk
       ELSE IF getFirstChar(ReadRes.resp) = 2
       THEN SetErr(p, NoErr) /\ Goto(p, "tc.cmd.read2") /\ UNCHANGED tcOk
       ELSE tcCheck(p, ReadRes.resp)
    /\ UNCHANGED <<sent, op, conn, lsn, dials, finals, env>>

\* resp, err = ftp.Read(cmd), then the check, whatever Read returned.
tc_cmd_read2(p) ==
    /\ pc[p] = "tc.cmd.read2"
    /\ ReadChan(p)
    /\ SetResp(p, ReadRes.resp)
    /\ IF ReadRes.resp = Nil
       THEN Goto(p, "panic") /\ SetErr(p, ReadRes.err) /\ UNCHANGED tcOk
       ELSE tcCheck(p, ReadRes.resp)
    /\ UNCHANGED <<sent, op, conn, lsn, dials, finals, env>>

\* listener.Accept; the listener's Close is deferred once Accept succeeded
\* and runs as transferCmd returns.
tc_accept(p) ==
    /\ pc[p] = "tc.accept"
    /\ \/ /\ conn' = [conn EXCEPT ![p] = "open"]
          /\ dials' = [dials EXCEPT ![p] = @ + 1]
          /\ lsn' = [lsn EXCEPT ![p] = "closed"]
          /\ tcReturn(p, resp[p])
       \/ /\ SetErr(p, IoErr)
          /\ Goto(p, "done")
          /\ UNCHANGED <<conn, dials, lsn, tcOk>>
    /\ UNCHANGED <<op, resp, sent, rcvd, finals, owed, env>>

\* --- the data phase (separateCall after transferCmd) and the final reply
\* defer conn.Close(): the state of the data connection as separateCall exits
KeepOpen(c) == c

separateCallExit(c) == "closed"

\* The loop over the blocks or lines ends at EOF, or with the error of the
\* data connection or of the local reader/writer; the operation returns that
\* error at once.
stream(p) ==
    /\ pc[p] = "stream"
    /\ op[p].name \notin ByteOps
    /\ conn' = [conn EXCEPT ![p] = separateCallExit(@)]
    /\ \/ SetErr(p, NoErr) /\ Goto(p, "final.read")
       \/ SetErr(p, IoErr) /\ Goto(p, "done")
    /\ UNCHANGED <<op, resp, sent, rcvd, lsn, dials, finals, tcOk, owed, env>>

\* tot += int64(nw)
LastOnly(t, k) == k

AddTot(t, k) == t + k

\* callback(&CallbackInfo{remotename, filename, tot, eof}) when the callback
\* is not nil; wrote is what the data connection has been given by then.
Notify(p, k, eof, w) ==
    IF cbOn[p]
    THEN /\ tot' = [tot EXCEPT ![p] = AddTot(@, k)]
         /\ cbs' = [cbs EXCEPT ![p] = Append(@, [BytesTransmitted |-> AddTot(tot[p], k),
                                                 Eof |-> eof, wrote |-> w])]
    ELSE UNCHANGED <<tot, cbs>>

\* s[:n], the first n bytes of the buffer
Whole(b, k) == b

Slice(b, k) == SubSeq(b, 1, k)

\* bufReader.Read(s): the block read lies at the front of s, and the rest of
\* s is as it was.
Fill(b, blk) == blk \o SubSeq(b, Len(blk) + 1, Len(b))

\* fmt.Fprintln(conn, string(line)): the line, then a newline
Fprintln(line) == line \o <<10>>

\* One turn of the loop of StoreBytes or StoreLines.  The reader yields its
\* next block or line, or the end of the input (a reader may give its last
\* block together with io.EOF), or fails; StoreBytes writes s[:nr], of 0
\* bytes at a bare EOF, and StoreLines the line and a newline, but nothing
\* at EOF; a failed write may have written a part.  Then the callback, and
\* the loop ends at EOF; every return closes the data connection.
store_step(p) ==
    /\ pc[p] = "stream"
    /\ op[p].name \in StoreOps
    /\ LET bytes == op[p].name = "StoreBytes"
           atEnd == rd[p] = <<>>
           blk == IF atEnd THEN <<>> ELSE Head(rd[p])
           s1 == IF bytes THEN Fill(buf[p], blk) ELSE buf[p]
           out == IF bytes THEN Slice(s1, Len(blk))
                  ELSE IF atEnd THEN <<>> ELSE Fprintln(blk)
           nw == Len(out)
       IN \/ \E eof \in {atEnd} \cup {e \in {TRUE} : bytes /\ Len(rd[p]) = 1} :
                /\ rd' = [rd EXCEPT ![p] = IF atEnd THEN @ ELSE Tail(@)]
                /\ buf' = [buf EXCEPT ![p] = s1]
                /\ wrote' = [wrote EXCEPT ![p] = @ \o out]
                /\ Notify(p, nw, eof, Len(wrote[p]) + nw)
                /\ SetErr(p, NoErr)
                /\ IF eof
                   THEN /\ conn' = [conn EXCEPT ![p] = separateCallExit(@)]
                        /\ Goto(p, "final.read")
                   ELSE UNCHANGED <<conn, pc>>
          \/ /\ \E k \in 0..(IF nw = 0 THEN 0 ELSE nw - 1) :
                   wrote' = [wrote EXCEPT ![p] = @ \o SubSeq(out, 1, k)]
             /\ conn' = [conn EXCEPT ![p] = separateCallExit(@)]
             /\ SetErr(p, IoErr)
             /\ Goto(p, "done")
             /\ UNCHANGED <<rd, buf, tot, cbs>>
    /\ UNCHANGED <<op, resp, sent, rcvd, lsn, dials, finals, tcOk, owed, cbOn, given, offset, dialed, codec, reader, said, size, writer,
                   broken, passiveserver, srv, sess, tree, pool>>

\* One turn of the loop of GetBytes.  The data connection yields its next
\* block, or its end (possibly together with the last block), or fails;
\* s[:n] goes to the writer before the error of the read is looked at, and
\* a failed write may have written a part.  The loop ends at io.EOF; every
\* return closes the data connection.
get_step(p) ==
    /\ pc[p] = "stream"
    /\ op[p].name \in GetOps
    /\ LET atEnd == rd[p] = <<>>
           blk == IF atEnd THEN <<>> ELSE Head(rd[p])
           s1 == Fill(buf[p], blk)
           out == Slice(s1, Len(blk))
       IN \/ \E eof \in {atEnd} \cup {e \in {TRUE} : Len(rd[p]) = 1} :
                /\ rd' = [rd EXCEPT ![p] = IF atEnd THEN @ ELSE Tail(@)]
                /\ buf' = [buf EXCEPT ![p] = s1]
                /\ wrote' = [wrote EXCEPT ![p] = @ \o out]
                /\ SetErr(p, NoErr)
                /\ IF eof
                   THEN /\ conn' = [conn EXCEPT ![p] = separateCallExit(@)]
                        /\ Goto(p, "final.read")
                   ELSE UNCHANGED <<conn, pc>>
          \/ /\ \E k \in 0..(IF out = <<>> THEN 0 ELSE Len(out) - 1) :
                   wrote' = [wrote EXCEPT ![p] = @ \o SubSeq(out, 1, k)]
             /\ conn' = [conn EXCEPT ![p] = separateCallExit(@)]
             /\ SetErr(p, IoErr)
             /\ Goto(p, "done")
             /\ UNCHANGED <<rd, buf>>
    /\ UNCHANGED <<op, resp, sent, rcvd, lsn, dials, finals, tcOk, owed, cbOn, given, offset, dialed, codec, reader, said, size, writer,
                   tot, cbs, broken, passiveserver, srv, sess, tree, pool>>

\* _, err = ftp.Read(cmd)
final_read(p) ==
    /\ pc[p] = "final.read"
    /\ ReadChan(p)
    /\ SetErr(p, ReadRes.err)
    /\ finals' = [finals EXCEPT ![p] = IF Dead THEN @ ELSE @ + 1]
    /\ Goto(p, "done")
    /\ UNCHANGED <<op, resp, sent, conn, lsn, dials, tcOk, env>>

\* ------------------------------------------------------------ the session
Step(p) ==
    \/ Connect_dial(p) \/ Connect_read(p) \/ QUIT_send(p) \/ QUIT_read(p)
    \/ cmd_send(p) \/ cmd_read(p) \/ SIZE_send(p) \/ SIZE_read(p)
    \/ USER_send(p) \/ USER_read(p) \/ PASS_send(p) \/ PASS_read(p)
    \/ ACCT_send(p) \/ ACCT_read(p)
    \/ TYPE_send(p) \/ TYPE_read(p)
    \/ PASV_send(p) \/ PASV_read(p) \/ tc_dial(p)
    \/ tc_listen(p) \/ PORT_send(p) \/ PORT_read(p)
    \/ tc_cmd_send(p) \/ tc_cmd_read(p) \/ tc_cmd_read2(p) \/ tc_accept(p)
    \/ stream(p) \/ store_step(p) \/ get_step(p) \/ final_read(p)

\* No call of a function that formats or parses a reply has been made.
NoOut == [panic |-> FALSE, host |-> <<>>, port |-> 0, dirname |-> <<>>, ls |-> <<>>, err |-> NoErr]
NoCodec == [fn |-> "none", host |-> <<>>, port |-> 0, code |-> 0, message |-> <<>>, lines |-> <<>>,
            out |-> NoOut]

\* No FtpReader has been made.
NoReader == [in |-> <<>>, line |-> <<>>, code |-> <<>>, took |-> <<>>, at |-> "none"]

\* No Writer has been made.
NoWriter == [buf |-> <<>>, err |-> NoErr, under |-> <<>>, room |-> 0,
             failed |-> FALSE, lines |-> <<>>, ret |-> NoErr]

TypeInit ==
    /\ op \in [Procs -> {NoOp}]
    /\ resp \in [Procs -> {Nil}] /\ err \in [Procs -> {NoErr}]
    /\ conn \in [Procs -> {"nil"}] /\ lsn \in [Procs -> {"nil"}]
    /\ sent \in [Procs -> {<<>>}] /\ rcvd \in [Procs -> {<<>>}]
    /\ dials \in [Procs -> {0}] /\ finals \in [Procs -> {0}]
    /\ tcOk \in [Procs -> {FALSE}]
    /\ result \in [Procs -> {"none"}]
    /\ idx = 0 /\ coll = 0 /\ sem = 0 /\ n = 0
    /\ serving = FALSE
    /\ uerr = NoErr
    /\ tlog = <<>>
    /\ rd \in [Procs -> {<<>>}] /\ tot \in [Procs -> {0}] /\ wrote \in [Procs -> {<<>>}] /\ offset \in [Procs -> {0}] /\ size \in [Procs -> {0}]
    /\ dialed \in [Procs -> {NoDial}]
    /\ said = <<>>
    /\ given \in [Procs -> {<<>>}] /\ buf \in [Procs -> {<<>>}]
    /\ cbs \in [Procs -> {<<>>}]

\* One caller with the FTP that NewFTP returns: no control connection yet,
\* passive by default.
Init ==
    /\ TypeInit
    /\ reader = NoReader
    /\ codec = NoCodec
    /\ writer = NoWriter
    /\ stack = <<>>
    /\ sock = "none" /\ addr = NoAddr
    /\ swd = <<lo_h>> /\ pwd = [abs |-> FALSE, path |-> <<>>]
    /\ rootDir = [abs |-> FALSE, path |-> <<>>] /\ ltree = <<>> /\ excl = <<>>
    /\ cbOn = [p \in Procs |-> FALSE]
    /\ pc = [p \in Procs |-> "idle"]
    /\ owed = <<>>
    /\ broken = FALSE
    /\ passiveserver = TRUE
    /\ srv = "full"
    /\ ctx = [p \in Procs |-> "top"]
    /\ maxUploads = 0 /\ useGoRoutines = FALSE /\ nfiles = 0

Next == Begin \/ SetPassive \/ ConnBreak \/ Step(0)

Spec == Init /\ [][Next]_vars

\* ------------------------------------------------- UploadDirTree, pooled
\* UploadDirTree as process 0, for a local directory of nfiles files and no
\* subdirectory.  useGoRoutines is fixed to false in the source, with the
\* condition maxSimultaneousConns >= 1 left in a comment; both are modelled,
\* the pooled path as it runs once that condition is put back.
poolrest == <<maxUploads, useGoRoutines, nfiles, ctx>>

\* pwd, err = ftp.Pwd(): return on an error
udt_pwd_send ==
    /\ pc[0] = "udt.pwd.send"
    /\ SendStepTo(0, "PWD", "udt.pwd.read", "udt.done")
    /\ uerr' = SendErr
    /\ UNCHANGED <<op, data, broken, passiveserver, srv, sess, xfer, tree, poolrest, idx, coll, result, sem, serving, n>>

udt_pwd_read ==
    /\ pc[0] = "udt.pwd.read"
    /\ ReadStepTo(0, "udt.cwd.send", "udt.done")
    /\ uerr' = ReadRes.err
    /\ UNCHANGED <<op, data, broken, passiveserver, srv, sess, xfer, tree, poolrest, idx, coll, result, sem, serving, n>>

\* ftp.Cwd(remoteRootDir): on an error the call returns (n, nil).  Then the
\* deferred Cwd(pwd) is registered and, with useGoRoutines, startServer runs.
udt_cwd_send ==
    /\ pc[0] = "udt.cwd.send"
    /\ SendStepTo(0, "CWD", "udt.cwd.read", "udt.done")
    /\ UNCHANGED <<op, data, env, uerr>>

udt_cwd_read ==
    /\ pc[0] = "udt.cwd.read"
    /\ ReadStepTo(0, "mkd.send", "udt.done")
    /\ serving' = (ReadRes.err = NoErr /\ useGoRoutines)
    /\ UNCHANGED <<op, data, broken, passiveserver, srv, sess, xfer, tree, poolrest, idx, coll, result, sem, n, uerr>>

\* Where UploadDirTree goes on after uploadDirTree has returned: it stops the
\* server when there is one, and runs its deferred Cwd(pwd).
AfterTree == IF useGoRoutines THEN "quit" ELSE "back.send"

\* uploadDirTree: Mkd(dir) and Cwd(dir), each returning on an error
mkd_send ==
    /\ pc[0] = "mkd.send"
    /\ SendStepTo(0, "MKD", "mkd.read", AfterTree)
    /\ uerr' = SendErr
    /\ UNCHANGED <<op, data, broken, passiveserver, srv, sess, xfer, tree, poolrest, idx, coll, result, sem, serving, n>>

mkd_read ==
    /\ pc[0] = "mkd.read"
    /\ ReadStepTo(0, "cwd.send", AfterTree)
    /\ uerr' = ReadRes.err
    /\ UNCHANGED <<op, data, broken, passiveserver, srv, sess, xfer, tree, poolrest, idx, coll, result, sem, serving, n>>

cwd_send ==
    /\ pc[0] = "cwd.send"
    /\ SendStepTo(0, "CWD", "cwd.read", AfterTree)
    /\ uerr' = SendErr
    /\ UNCHANGED <<op, data, broken, passiveserver, srv, sess, xfer, tree, poolrest, idx, coll, result, sem, serving, n>>

cwd_read ==
    /\ pc[0] = "cwd.read"
    /\ ReadStepTo(0, "loop", AfterTree)
    /\ uerr' = ReadRes.err
    /\ UNCHANGED <<op, data, broken, passiveserver, srv, sess, xfer, tree, poolrest, idx, coll, result, sem, serving, n>>

\* UploadFile(remotename, localpath, false, callback): os.Open, then StoreBytes
UploadFile(p) ==
    \/ Enter(p, [name |-> "StoreBytes", cmd |-> "STOR"])
    \/ /\ SetErr(p, [kind |-> "local", text |-> "nil"])
       /\ Goto(p, "done")
       /\ UNCHANGED <<op, resp, conn, lsn, sent, rcvd, dials, finals, tcOk, xfer, tree>>

\* The loop over the sorted entries: without goroutines each file is uploaded
\* in turn; with them each file becomes a request of dirRequests.
loop_upload ==
    /\ pc[0] = "loop"
    /\ ~useGoRoutines
    /\ idx < nfiles
    /\ UploadFile(0)
    /\ UNCHANGED <<owed, broken, passiveserver, srv, sess, tree, pool>>

loop_end ==
    /\ pc[0] = "loop"
    /\ IF useGoRoutines
       THEN Goto(0, "dispatch") /\ idx' = 0
       ELSE idx = nfiles /\ Goto(0, "up.send") /\ UNCHANGED idx
    /\ UNCHANGED <<op, resp, err, sent, rcvd, data, owed, broken, passiveserver, srv, sess, xfer, tree,
                   poolrest, coll, result, sem, serving, n, uerr>>

\* err = ftp.UploadFile(...): return on an error, else *n += 1
loop_uploaded ==
    /\ pc[0] = "done"
    /\ ctx[0] = "tree"
    /\ IF err[0] # NoErr
       THEN /\ uerr' = err[0] /\ Goto(0, "up.send") /\ UNCHANGED <<n, idx>>
       ELSE /\ n' = n + 1 /\ idx' = idx + 1 /\ Goto(0, "loop") /\ UNCHANGED uerr
    /\ UNCHANGED <<op, resp, err, sent, rcvd, data, owed, broken, passiveserver, srv, sess, xfer, tree,
                   poolrest, coll, result, sem, serving>>

\* queue <- r: the goroutine of startServer receives the request in its
\* select and starts a goroutine for it.
dispatch ==
    /\ pc[0] = "dispatch"
    /\ IF idx < nfiles
       THEN /\ serving
            /\ idx' = idx + 1
            /\ pc' = [pc EXCEPT ![idx + 1] = "sem.acquire"]
       ELSE /\ Goto(0, "collect") /\ UNCHANGED idx
    /\ UNCHANGED <<op, resp, err, sent, rcvd, data, owed, broken, passiveserver, srv, sess, xfer, tree,
                   poolrest, coll, result, sem, serving, n, uerr>>

\* <-r.resultChan blocks until the request's goroutine has put its result
NoWait(r) == TRUE

Received(r) == r # "none"

\* e := <-r.resultChan, for the requests in their order: the last error is kept
collect ==
    /\ pc[0] = "collect"
    /\ IF coll < nfiles
       THEN /\ Received(result[coll + 1])
            /\ coll' = coll + 1
            /\ uerr' = IF result[coll + 1] = "nil" THEN uerr
                       ELSE [kind |-> result[coll + 1], text |-> "nil"]
            /\ UNCHANGED pc
       ELSE /\ Goto(0, "up.send") /\ UNCHANGED <<coll, uerr>>
    /\ UNCHANGED <<op, resp, err, sent, rcvd, data, owed, broken, passiveserver, srv, sess, xfer, tree,
                   poolrest, idx, result, sem, serving, n>>

\* the deferred ftp.Cwd("..") of uploadDirTree: CDUP, its result dropped
up_send ==
    /\ pc[0] = "up.send"
    /\ SendStepTo(0, "CDUP", "up.read", AfterTree)
    /\ UNCHANGED <<op, data, env, uerr>>

up_read ==
    /\ pc[0] = "up.read"
    /\ ReadStepTo(0, AfterTree, AfterTree)
    /\ UNCHANGED <<op, data, env, uerr>>

\* quit <- true: the goroutine of startServer returns
quit ==
    /\ pc[0] = "quit"
    /\ serving
    /\ serving' = FALSE
    /\ Goto(0, "back.send")
    /\ UNCHANGED <<op, resp, err, sent, rcvd, data, owed, broken, passiveserver, srv, sess, xfer, tree,
                   poolrest, idx, coll, result, sem, n, uerr>>

\* the deferred ftp.Cwd(pwd) of UploadDirTree, its result dropped
back_send ==
    /\ pc[0] = "back.send"
    /\ SendStepTo(0, "CWD", "back.read", "udt.done")
    /\ UNCHANGED <<op, data, env, uerr>>

back_read ==
    /\ pc[0] = "back.read"
    /\ ReadStepTo(0, "udt.done", "udt.done")
    /\ UNCHANGED <<op, data, env, uerr>>

\* --- the goroutine started for one request
\* sem <- 1 blocks while the channel holds maxUploads tokens
semHasRoom == sem < maxUploads

worker_acquire(p) ==
    /\ pc[p] = "sem.acquire"
    /\ semHasRoom
    /\ sem' = sem + 1
    /\ Goto(p, "upload")
    /\ UNCHANGED <<op, resp, err, sent, rcvd, data, owed, broken, passiveserver, srv, sess, xfer, tree,
                   poolrest, idx, coll, result, serving, n, uerr>>

worker_upload(p) ==
    /\ pc[p] = "upload"
    /\ UploadFile(p)
    /\ UNCHANGED <<owed, broken, passiveserver, srv, sess, tree, pool>>

\* req.resultChan <- e: the channel has room for the one result
worker_result(p) ==
    /\ pc[p] = "done"
    /\ ctx[p] = "worker"
    /\ result' = [result EXCEPT ![p] = err[p].kind]
    /\ Goto(p, "release")
    /\ UNCHANGED <<op, resp, err, sent, rcvd, data, owed, broken, passiveserver, srv, sess, xfer, tree,
                   poolrest, idx, coll, sem, serving, n, uerr>>

\* <-sem
Held(k) == k

Released(k) == k - 1

worker_release(p) ==
    /\ pc[p] = "release"
    /\ sem' = Released(sem)
    /\ Goto(p, "end")
    /\ UNCHANGED <<op, resp, err, sent, rcvd, data, owed, broken, passiveserver, srv, sess, xfer, tree,
                   poolrest, idx, coll, result, serving, n, uerr>>

Tree ==
    \/ udt_pwd_send \/ udt_pwd_read \/ udt_cwd_send \/ udt_cwd_read
    \/ mkd_send \/ mkd_read \/ cwd_send \/ cwd_read
    \/ loop_upload \/ loop_end \/ loop_uploaded
    \/ dispatch \/ collect \/ up_send \/ up_read \/ quit \/ back_send \/ back_read

Worker(p) == worker_acquire(p) \/ worker_upload(p) \/ worker_result(p) \/ worker_release(p)

\* The uploads are StoreBytes in passive mode.
UploadSteps(p) ==
    \/ TYPE_send(p) \/ TYPE_read(p) \/ PASV_send(p) \/ PASV_read(p) \/ tc_dial(p)
    \/ tc_cmd_send(p) \/ tc_cmd_read(p) \/ store_step(p) \/ final_read(p)

\* Goroutines that share the session can be handed each other's replies, a
\* 2xx one among them.
StoreSteps(p) == UploadSteps(p) \/ tc_cmd_read2(p)

\* UploadDirTree is called with a worker count from 0 and a directory of at
\* least one file, on a connected session in passive mode.
InitPool ==
    /\ TypeInit
    /\ reader = NoReader
    /\ codec = NoCodec
    /\ writer = NoWriter
    /\ stack = <<>>
    /\ owed = <<>>
    /\ broken = FALSE
    /\ passiveserver = TRUE
    /\ srv = "basic"
    /\ sock = "open" /\ addr = ConnectAddr("h", DefaultFtpPort)
    /\ swd = <<lo_h>> /\ pwd = [abs |-> FALSE, path |-> <<>>]
    /\ rootDir = [abs |-> FALSE, path |-> <<>>] /\ ltree = <<>> /\ excl = <<>>
    /\ \E c \in BOOLEAN : cbOn = [p \in Procs |-> c]
    /\ ctx = [p \in Procs |-> IF p = 0 THEN "tree" ELSE "worker"]
    /\ maxUploads \in 0..MaxWorkers
    /\ useGoRoutines \in {FALSE, maxUploads >= 1}
    /\ nfiles \in 1..MaxFiles
    /\ pc = [p \in Procs |-> IF p = 0 THEN "udt.pwd.send" ELSE "idle"]

NextPool == Tree \/ (\E p \in Workers : Worker(p)) \/ (\E p \in Procs : StoreSteps(p))

SpecPool == InitPool /\ [][NextPool]_vars

\* The goroutines are scheduled fairly: UploadDirTree and each goroutine of a
\* request go on whenever they can.
FairPool ==
    /\ SpecPool
    /\ WF_vars(Tree \/ StoreSteps(0))
    /\ \A p \in Workers : WF_vars(Worker(p) \/ StoreSteps(p))

\* ------------------------------------------- the server's directories
\* A directory argument: an absolute path, or a path relative to the working
\* directory.  The empty relative path is the name "", which Cwd sends as ".".
EmptyName == [abs |-> FALSE, path |-> <<>>]
AbsName(path) == [abs |-> TRUE, path |-> path]
RelName(name) == [abs |-> FALSE, path |-> <<name>>]

\* The working directory of the session when the tree operation is called.
Home == <<lo_h>>

\* What the server may do with a command of a tree operation: the reply it
\* queues, the path a 257 reply names, its working directory afterwards, and
\* whether it carried the command out.  A 257 reply has its text "quoted"
\* right after the code (257 "/dir" ...), or "shifted" so that bytes 3 and 4
\* of the message are a space and the quote, or "short" of 5 bytes.
Outcome(code, msg, wd, ok) == [code |-> code, msg |-> msg, path |-> AbsName(swd), swd |-> wd, ok |-> ok]
Rejected == Outcome(550, "text", swd, FALSE)

Serve(c, a) ==
    IF c = "PWD" THEN {Outcome(257, m, swd, TRUE) : m \in {"quoted", "shifted", "short"}} \cup {Rejected}
    ELSE IF c = "CWD" THEN {Outcome(250, "text", IF a.abs THEN a.path ELSE swd \o a.path, TRUE), Rejected}
    ELSE IF c = "CDUP" THEN {Outcome(250, "text", IF swd = <<>> THEN swd ELSE SubSeq(swd, 1, Len(swd) - 1), TRUE),
                             Rejected}
    ELSE IF c = "MKD" THEN {Outcome(257, m, swd, TRUE) : m \in {"quoted", "short"}}
                           \cup {Outcome(250, "text", swd, TRUE), Rejected}
    ELSE {Outcome(250, "text", swd, TRUE), Rejected}

\* SendAndRead(c, a) of the tree operation, which is alone on the session:
\* the command is written, the server queues its reply, and the oldest
\* unread reply is read.  head is that reply, res what Read returns.
Call(c, a) ==
    IF Dead
    THEN {[owed |-> owed, swd |-> swd, ok |-> FALSE, head |-> Rejected,
           res |-> [resp |-> Nil, err |-> IoErr]]}
    ELSE {LET q == owed \o <<[code |-> o.code, msg |-> o.msg, by |-> 0, path |-> o.path]>>
          IN [owed |-> Tail(q), swd |-> o.swd, ok |-> o.ok, head |-> Head(q),
              res |-> ReadResult(Head(q).code, Head(q).msg)] : o \in Serve(c, a)}

\* parse257 on the reply h: a protocol error unless the code is 257; then
\* resp.Message[3:5], which is out of range for a short message (the process
\* panics) and differs from space-quote for a message that starts with the
\* quoted name (the name is ""); else the name between the quotes.
parse257(h) ==
    IF h.code # 257 THEN [panic |-> FALSE, dirname |-> EmptyName, err |-> NewErrProto(h.msg)]
    ELSE IF h.msg = "short" THEN [panic |-> TRUE, dirname |-> EmptyName, err |-> NoErr]
    ELSE IF h.msg = "shifted" THEN [panic |-> FALSE, dirname |-> h.path, err |-> NoErr]
    ELSE [panic |-> FALSE, dirname |-> EmptyName, err |-> NoErr]

\* Pwd and Mkd on the outcome o of SendAndRead: the error of SendAndRead; ""
\* and no error for a code other than 257; else parse257.
NameOf(o) ==
    IF o.res.err # NoErr THEN [panic |-> FALSE, dirname |-> EmptyName, err |-> o.res.err]
    ELSE IF o.head.code # 257 THEN [panic |-> FALSE, dirname |-> EmptyName, err |-> NoErr]
    ELSE parse257(o.head)

\* One entry of tlog: a command with its argument and whether the server
\* carried it out, or a step of the loop with the name of the entry; for a
\* finished upload, whether it succeeded and how many times its callback was
\* given Eof.
Event(what, arg, ok, eofs) == [what |-> what, arg |-> arg, ok |-> ok, eofs |-> eofs]
Log(what, arg, ok) == tlog' = Append(tlog, Event(what, arg, ok, 0))

\* What a tree call leaves alone: the state of the transfer operations, and
\* the session and the inputs of the call.
xferState == <<op, resp, err, sent, rcvd, data, xfer>>
inputs == <<broken, passiveserver, srv, sess, rootDir, ltree,
            ctx, maxUploads, useGoRoutines, nfiles, idx, coll, result, sem, serving>>

\* -------------------------------------------- UploadDirTree, sequential
\* UploadDirTree and uploadDirTree as they are now (no pool), process 0 with
\* ctx "UploadDirTree".  localDir is the directory d with the entries ltree.
File(nm) == [name |-> nm, dir |-> FALSE, sub |-> <<>>]
Dir(nm, ents) == [name |-> nm, dir |-> TRUE, sub |-> ents]

\* An activation of uploadDirTree: the directory, its entries, the
\* entry the loop is at, and whether the deferred Cwd("..") is registered.
Frame(nm, ents) == [dir |-> nm, ents |-> ents, i |-> 1, entered |-> FALSE]
Top == stack[Len(stack)]
SetTop(f) == stack' = [stack EXCEPT ![Len(stack)] = f]

\* The lookup of a directory name in the sorted exclusion slice
NotExcluded(exDirs, fname) == FALSE

Excluded(exDirs, fname) ==
    /\ Len(exDirs) > 0
    /\ LET lfname == ToLower(fname)
           k == SearchStrings(exDirs, lfname)
       IN k < Len(exDirs) /\ exDirs[k + 1] = lfname

\* The check of remoteRootDir, then pwd, err = ftp.Pwd()
UploadDirTree_Pwd ==
    /\ pc[0] = "U.pwd"
    /\ IF rootDir = EmptyName
       THEN /\ uerr' = [kind |-> "local", text |-> "A valid remote root folder"]
            /\ Goto(0, "U.done")
            /\ UNCHANGED <<owed, swd, pwd, tlog>>
       ELSE \E o \in Call("PWD", EmptyName) :
            /\ owed' = o.owed /\ swd' = o.swd
            /\ Log("PWD", EmptyName, o.ok)
            /\ uerr' = NameOf(o).err
            /\ pwd' = NameOf(o).dirname
            /\ Goto(0, IF NameOf(o).panic THEN "panic"
                       ELSE IF NameOf(o).err # NoErr THEN "U.done" ELSE "U.cwd")
    /\ UNCHANGED <<xferState, inputs, excl, stack, n>>

\* ftp.Cwd(remoteRootDir): on an error, return n, nil.  Else the deferred
\* Cwd(pwd) is registered, the exclusion slice is sorted where it is (the
\* loop that lower-cases assigns to its own variable v only), and
\* uploadDirTree(localDir, ...) is called.
UploadDirTree_Cwd ==
    /\ pc[0] = "U.cwd"
    /\ \E o \in Call("CWD", rootDir) :
        /\ owed' = o.owed /\ swd' = o.swd
        /\ Log("CWD", rootDir, o.ok)
        /\ uerr' = NoErr
        /\ IF o.res.err # NoErr
           THEN Goto(0, "U.done") /\ UNCHANGED <<excl, stack>>
           ELSE /\ excl' = IF Len(excl) > 0 THEN Sort(excl) ELSE excl
                /\ stack' = <<Frame(lo_d, ltree)>>
                /\ Goto(0, "u.mkd")
    /\ UNCHANGED <<xferState, inputs, pwd, n>>

\* ftp.Mkd(dir): return on an error
uploadDirTree_Mkd ==
    /\ pc[0] = "u.mkd"
    /\ \E o \in Call("MKD", RelName(Top.dir)) :
        /\ owed' = o.owed /\ swd' = o.swd
        /\ Log("MKD", RelName(Top.dir), o.ok)
        /\ uerr' = NameOf(o).err
        /\ Goto(0, IF NameOf(o).panic THEN "panic"
                   ELSE IF NameOf(o).err # NoErr THEN "u.ret" ELSE "u.cwd")
    /\ UNCHANGED <<xferState, inputs, pwd, excl, stack, n>>

\* files, err = filepath.Glob(globSearch), then sort.Strings(files): the
\* entries of the directory in the ascending order of their names
Unsorted(ents) == ents

sortFiles(ents) ==
    LET names == Sort([i \in 1..Len(ents) |-> ents[i].name])
    IN [i \in 1..Len(ents) |-> CHOOSE e \in {ents[k] : k \in 1..Len(ents)} : e.name = names[i]]

\* ftp.Cwd(dir): return on an error, else defer ftp.Cwd(".."), and the
\* entries are listed and sorted
uploadDirTree_Cwd ==
    /\ pc[0] = "u.cwd"
    /\ \E o \in Call("CWD", RelName(Top.dir)) :
        /\ owed' = o.owed /\ swd' = o.swd
        /\ Log("CWD", RelName(Top.dir), o.ok)
        /\ uerr' = o.res.err
        /\ IF o.res.err # NoErr
           THEN Goto(0, "u.ret") /\ UNCHANGED stack
           ELSE Goto(0, "u.loop") /\ SetTop([Top EXCEPT !.entered = TRUE, !.ents = sortFiles(@)])
    /\ UNCHANGED <<xferState, inputs, pwd, excl, n>>

\* One turn of the loop over the entries: os.Stat fails and the function
\* returns; or a file is handed to UploadFile; or a directory is skipped when
\* excluded and else uploaded by a nested call.  After the last entry the
\* function returns.
uploadDirTree_stat ==
    /\ pc[0] = "u.loop"
    /\ Top.i <= Len(Top.ents)
    /\ uerr' = [kind |-> "local", text |-> "stat"]
    /\ Goto(0, "u.ret")
    /\ UNCHANGED <<xferState, inputs, owed, swd, pwd, excl, stack, tlog, n>>

uploadDirTree_file ==
    /\ pc[0] = "u.loop"
    /\ Top.i <= Len(Top.ents)
    /\ ~Top.ents[Top.i].dir
    /\ UploadFile(0)
    /\ Log("UploadFile", RelName(Top.ents[Top.i].name), TRUE)
    /\ UNCHANGED <<inputs, owed, swd, pwd, excl, stack, n, uerr>>

\* if err != nil { return }
GoOn(e) == FALSE

Failed(e) == e # NoErr

\* *n += 1
Same(k) == k

Incr(k) == k + 1

\* err = ftp.UploadFile(...): return on an error, else *n += 1
uploadDirTree_uploaded ==
    /\ pc[0] = "done"
    /\ ctx[0] = "UploadDirTree"
    /\ uerr' = err[0]
    /\ tlog' = Append(tlog, Event("uploaded", RelName(Top.ents[Top.i].name), err[0] = NoErr,
                                  Cardinality({k \in 1..Len(cbs[0]) : cbs[0][k].Eof})))
    /\ IF Failed(err[0])
       THEN Goto(0, "u.ret") /\ UNCHANGED <<n, stack>>
       ELSE Goto(0, "u.loop") /\ n' = Incr(n) /\ SetTop([Top EXCEPT !.i = @ + 1])
    /\ UNCHANGED <<op, resp, err, sent, rcvd, data, xfer, inputs, owed, swd, pwd, excl>>

uploadDirTree_dir ==
    /\ pc[0] = "u.loop"
    /\ Top.i <= Len(Top.ents)
    /\ Top.ents[Top.i].dir
    /\ IF Excluded(excl, Top.ents[Top.i].name)
       THEN /\ SetTop([Top EXCEPT !.i = @ + 1])
            /\ Log("skip", RelName(Top.ents[Top.i].name), TRUE)
            /\ UNCHANGED pc
       ELSE /\ stack' = Append(stack, Frame(Top.ents[Top.i].name, Top.ents[Top.i].sub))
            /\ Goto(0, "u.mkd")
            /\ UNCHANGED tlog
    /\ UNCHANGED <<xferState, inputs, owed, swd, pwd, excl, n, uerr>>

uploadDirTree_end ==
    /\ pc[0] = "u.loop"
    /\ Top.i > Len(Top.ents)
    /\ Goto(0, "u.ret")
    /\ UNCHANGED <<xferState, inputs, owed, swd, pwd, excl, stack, tlog, n, uerr>>

\* The return of an activation: its deferred Cwd("..") when registered (a
\* CDUP whose result is dropped); the caller goes on with its next entry, or
\* returns the error in its turn; the outermost one returns to UploadDirTree.
uploadDirTree_return ==
    /\ pc[0] = "u.ret"
    /\ \E o \in (IF Top.entered THEN Call("CDUP", EmptyName)
                 ELSE {[owed |-> owed, swd |-> swd, ok |-> FALSE]}) :
        /\ owed' = o.owed /\ swd' = o.swd
        /\ IF Top.entered THEN Log("CDUP", RelName(Top.dir), o.ok) ELSE UNCHANGED tlog
    /\ IF Len(stack) = 1
       THEN stack' = <<>> /\ Goto(0, "U.back")
       ELSE /\ stack' = [k \in 1..(Len(stack) - 1) |->
                            IF k = Len(stack) - 1 /\ uerr = NoErr
                            THEN [stack[k] EXCEPT !.i = @ + 1] ELSE stack[k]]
            /\ Goto(0, IF uerr = NoErr THEN "u.loop" ELSE "u.ret")
    /\ UNCHANGED <<xferState, inputs, pwd, excl, n, uerr>>

\* The deferred ftp.Cwd(pwd) of UploadDirTree, its result dropped; then the
\* call returns n and the error of uploadDirTree.
UploadDirTree_back ==
    /\ pc[0] = "U.back"
    /\ \E o \in Call("CWD", pwd) :
        /\ owed' = o.owed /\ swd' = o.swd
        /\ Log("restore", pwd, o.ok)
    /\ Goto(0, "U.done")
    /\ UNCHANGED <<xferState, inputs, pwd, excl, stack, n, uerr>>

UploadTree ==
    \/ UploadDirTree_Pwd \/ UploadDirTree_Cwd \/ uploadDirTree_Mkd \/ uploadDirTree_Cwd
    \/ uploadDirTree_stat \/ uploadDirTree_file \/ uploadDirTree_uploaded
    \/ uploadDirTree_dir \/ uploadDirTree_end \/ uploadDirTree_return
    \/ UploadDirTree_back

\* The local directories tried, their entries as filepath.Glob gives them:
\* two files; a subdirectory s with a file, and a file; a subdirectory S with
\* a file, and a file.  And the exclusion slices: none, s, S, and t before s.
LocalTrees == {<<File(lo_f), File(lo_g)>>,
               <<Dir(lo_s, <<File(lo_g)>>), File(lo_f)>>,
               <<Dir(up_S, <<File(lo_g)>>), File(lo_f)>>}
Exclusions == {<<>>, <<lo_s>>, <<up_S>>, <<lo_t, lo_s>>}

\* UploadDirTree is called on a connected session in passive mode whose
\* working directory is Home.
InitTree ==
    /\ TypeInit
    /\ reader = NoReader
    /\ codec = NoCodec
    /\ writer = NoWriter
    /\ stack = <<>>
    /\ pc = [p \in Procs |-> IF p = 0 THEN "U.pwd" ELSE "idle"]
    /\ owed = <<>>
    /\ broken = FALSE
    /\ passiveserver = TRUE
    /\ srv = "basic"
    /\ sock = "open" /\ addr = ConnectAddr("h", DefaultFtpPort)
    /\ ctx = [p \in Procs |-> IF p = 0 THEN "UploadDirTree" ELSE "top"]
    /\ maxUploads \in 0..1 /\ useGoRoutines = FALSE /\ nfiles = 0
    /\ \E c \in BOOLEAN : cbOn = [p \in Procs |-> c]
    /\ swd = Home /\ pwd = EmptyName
    /\ rootDir \in {EmptyName, AbsName(<<lo_r>>)}
    /\ ltree \in LocalTrees
    /\ excl \in Exclusions

NextTree == UploadTree \/ UploadSteps(0)

SpecTree == InitTree /\ [][NextTree]_vars

\* ------------------------------------------------- RemoveRemoteDirTree
\* RemoveRemoteDirTree and removeRemoteDirTree, process 0 with ctx
\* "RemoveRemoteDirTree".  The nesting of the remote directories a listing
\* may show is bounded.
MaxDepth == 2

DIRECTORY_NON_EXISTENT == [kind |-> "DIRECTORY_NON_EXISTENT",
                           text |-> "The folder does not exist and can not be removed"]

\* A line of the listing as strings.Fields splits it: the first field is the
\* permission string (of a directory, a file, a link) and the last one the
\* name, which may be "." or "..".
Line(nm, perm) == [name |-> nm, perm |-> perm]
Dot == <<46>>
DotDot == <<46, 46>>
permDir == <<100, 114>>
permFile == <<45, 114>>
permLink == <<108, 114>>
Listings == {<<>>, <<Line(Dot, permDir), Line(DotDot, permDir), Line(lo_f, permFile)>>,
             <<Line(lo_s, permDir), Line(lo_f, permFile)>>,
             <<Line(lo_f, permLink), Line(lo_s, permDir)>>}

\* perm[0] == 'd'
notDir(perm) == FALSE

isDir(perm) == perm[1] = 100

\* An activation of RemoveRemoteDirTree(remoteDir): the directory, the pwd
\* it got and whether its deferred Cwd(pwd) is registered, the listing and
\* the line the loop is at; did is what the loop has done with each line.
RFrame(nm) == [dir |-> nm, ents |-> <<>>, i |-> 1, entered |-> FALSE, pwd |-> EmptyName,
               did |-> <<>>]

\* pwd, err = ftp.Pwd(): return on an error, else defer ftp.Cwd(pwd)
RemoveRemoteDirTree_Pwd ==
    /\ pc[0] = "R.pwd"
    /\ \E o \in Call("PWD", EmptyName) :
        /\ owed' = o.owed /\ swd' = o.swd
        /\ Log("PWD", EmptyName, o.ok)
        /\ uerr' = NameOf(o).err
        /\ IF NameOf(o).panic THEN Goto(0, "panic") /\ UNCHANGED stack
           ELSE IF NameOf(o).err # NoErr THEN Goto(0, "R.ret") /\ UNCHANGED stack
           ELSE /\ SetTop([Top EXCEPT !.entered = TRUE, !.pwd = NameOf(o).dirname])
                /\ Goto(0, "r.cwd")
    /\ UNCHANGED <<xferState, inputs, pwd, excl, n>>

\* if _, err = ftp.Cwd(remoteDir); err != nil { return DIRECTORY_NON_EXISTENT }
SameError(e) == e

CwdFailure(e) == DIRECTORY_NON_EXISTENT

removeRemoteDirTree_Cwd ==
    /\ pc[0] = "r.cwd"
    /\ \E o \in Call("CWD", Top.dir) :
        /\ owed' = o.owed /\ swd' = o.swd
        /\ Log("CWD", Top.dir, o.ok)
        /\ IF o.res.err # NoErr
           THEN uerr' = CwdFailure(o.res.err) /\ Goto(0, "R.ret")
           ELSE uerr' = NoErr /\ Goto(0, "r.dir")
    /\ UNCHANGED <<xferState, inputs, pwd, excl, stack, n>>

\* filelist, err = ftp.Dir(): GetLines with LIST
removeRemoteDirTree_Dir ==
    /\ pc[0] = "r.dir"
    /\ Enter(0, [name |-> "GetLines", cmd |-> "LIST"])
    /\ Log("LIST", Top.dir, TRUE)
    /\ UNCHANGED <<inputs, owed, swd, pwd, excl, stack, n, uerr>>

\* Dir has returned: its error is returned, else the loop starts on the
\* lines it gave.
removeRemoteDirTree_listed ==
    /\ pc[0] = "done"
    /\ ctx[0] = "RemoveRemoteDirTree"
    /\ uerr' = err[0]
    /\ IF err[0] # NoErr
       THEN Goto(0, "R.ret") /\ UNCHANGED stack
       ELSE /\ \E l \in {x \in Listings : Len(stack) < MaxDepth
                                          \/ \A k \in 1..Len(x) : x[k].perm # permDir \/ x[k].name \in {Dot, DotDot}} :
                 SetTop([Top EXCEPT !.ents = l, !.i = 1])
            /\ Goto(0, "r.loop")
    /\ UNCHANGED <<op, resp, err, sent, rcvd, data, xfer, inputs, owed, swd, pwd, excl, tlog, n>>

\* One turn of the loop over the lines: "." and ".." are passed over; a file
\* is deleted, the result of Delete dropped; a directory is removed by a
\* nested RemoveRemoteDirTree(fname).
removeRemoteDirTree_line ==
    /\ pc[0] = "r.loop"
    /\ Top.i <= Len(Top.ents)
    /\ LET e == Top.ents[Top.i]
       IN IF e.name = Dot \/ e.name = DotDot
          THEN /\ SetTop([Top EXCEPT !.i = @ + 1, !.did = Append(@, "continue")])
               /\ UNCHANGED <<owed, swd, tlog, pc>>
          ELSE IF ~isDir(e.perm)
          THEN \E o \in Call("DELE", RelName(e.name)) :
                /\ owed' = o.owed /\ swd' = o.swd
                /\ Log("DELE", RelName(e.name), o.ok)
                /\ SetTop([Top EXCEPT !.i = @ + 1, !.did = Append(@, "Delete")])
                /\ UNCHANGED pc
          ELSE /\ stack' = Append(stack, RFrame(RelName(e.name)))
               /\ Goto(0, "R.pwd")
               /\ UNCHANGED <<owed, swd, tlog>>
    /\ UNCHANGED <<xferState, inputs, pwd, excl, n, uerr>>

\* ftp.Cwd(".."), its result dropped
removeRemoteDirTree_up ==
    /\ pc[0] = "r.loop"
    /\ Top.i > Len(Top.ents)
    /\ \E o \in Call("CDUP", EmptyName) :
        /\ owed' = o.owed /\ swd' = o.swd
        /\ Log("CDUP", Top.dir, o.ok)
    /\ Goto(0, "r.rmd")
    /\ UNCHANGED <<xferState, inputs, pwd, excl, stack, n, uerr>>

\* _, err = ftp.Rmd(remoteDir)
removeRemoteDirTree_Rmd ==
    /\ pc[0] = "r.rmd"
    /\ \E o \in Call("RMD", Top.dir) :
        /\ owed' = o.owed /\ swd' = o.swd
        /\ Log("RMD", Top.dir, o.ok)
        /\ uerr' = o.res.err
    /\ Goto(0, "R.ret")
    /\ UNCHANGED <<xferState, inputs, pwd, excl, stack, n>>

\* The return of RemoveRemoteDirTree: its deferred Cwd(pwd) when registered,
\* the result dropped; then the caller's loop goes on with its next line, or
\* the caller returns the error in its turn.
RemoveRemoteDirTree_return ==
    /\ pc[0] = "R.ret"
    /\ \E o \in (IF Top.entered THEN Call("CWD", Top.pwd)
                 ELSE {[owed |-> owed, swd |-> swd, ok |-> FALSE]}) :
        /\ owed' = o.owed /\ swd' = o.swd
        /\ IF Top.entered THEN Log("restore", Top.pwd, o.ok) ELSE UNCHANGED tlog
    /\ IF Len(stack) = 1
       THEN stack' = <<>> /\ Goto(0, "R.done")
       ELSE /\ stack' = [k \in 1..(Len(stack) - 1) |->
                            IF k = Len(stack) - 1 /\ uerr = NoErr
                            THEN [stack[k] EXCEPT !.i = @ + 1,
                                                  !.did = Append(@, "RemoveRemoteDirTree")]
                            ELSE stack[k]]
            /\ Goto(0, IF uerr = NoErr THEN "r.loop" ELSE "R.ret")
    /\ UNCHANGED <<xferState, inputs, pwd, excl, n, uerr>>

RemoveTree ==
    \/ RemoveRemoteDirTree_Pwd \/ removeRemoteDirTree_Cwd \/ removeRemoteDirTree_Dir
    \/ removeRemoteDirTree_listed \/ removeRemoteDirTree_line \/ removeRemoteDirTree_up
    \/ removeRemoteDirTree_Rmd \/ RemoveRemoteDirTree_return

\* Dir is GetLines in passive mode.
ListSteps(p) ==
    \/ TYPE_send(p) \/ TYPE_read(p) \/ PASV_send(p) \/ PASV_read(p) \/ tc_dial(p)
    \/ tc_cmd_send(p) \/ tc_cmd_read(p) \/ stream(p) \/ final_read(p)

\* RemoveRemoteDirTree(r) is called on a connected session in passive mode
\* whose working directory is Home.
InitRemove ==
    /\ TypeInit
    /\ reader = NoReader
    /\ codec = NoCodec
    /\ writer = NoWriter
    /\ pc = [p \in Procs |-> IF p = 0 THEN "R.pwd" ELSE "idle"]
    /\ owed = <<>>
    /\ broken = FALSE
    /\ passiveserver = TRUE
    /\ srv = "basic"
    /\ sock = "open" /\ addr = ConnectAddr("h", DefaultFtpPort)
    /\ ctx = [p \in Procs |-> IF p = 0 THEN "RemoveRemoteDirTree" ELSE "top"]
    /\ maxUploads = 0 /\ useGoRoutines = FALSE /\ nfiles = 0
    /\ cbOn = [p \in Procs |-> FALSE]
    /\ swd = Home /\ pwd = EmptyName
    /\ rootDir \in {RelName(lo_r), AbsName(<<lo_r>>)}
    /\ ltree = <<>> /\ excl = <<>>
    /\ stack = <<RFrame(rootDir)>>

NextRemove == RemoveTree \/ ListSteps(0)

SpecRemove == InitRemove /\ [][NextRemove]_vars

\* ------------------------------------------------------ resumed download
\* The caller resumes a download (its previous one has returned, and left
\* no reply unread).
DownloadResumeFile ==
    /\ pc[0] \in {"idle", "done"}
    /\ owed = <<>>
    /\ Enter(0, ResumeOp)
    /\ UNCHANGED <<owed, broken, passiveserver, srv, sess, tree, pool>>

ResumeSteps(p) ==
    \/ TYPE_send(p) \/ TYPE_read(p) \/ REST_send(p) \/ REST_read(p)
    \/ PASV_send(p) \/ PASV_read(p) \/ tc_dial(p)
    \/ tc_listen(p) \/ PORT_send(p) \/ PORT_read(p)
    \/ tc_cmd_send(p) \/ tc_cmd_read(p) \/ tc_accept(p)
    \/ get_step(p) \/ final_read(p)

\* DownloadResumeFile is called on a connected session, in either mode.
InitResume ==
    /\ TypeInit
    /\ reader = NoReader
    /\ codec = NoCodec
    /\ writer = NoWriter
    /\ stack = <<>>
    /\ pc = [p \in Procs |-> "idle"]
    /\ owed = <<>>
    /\ broken = FALSE
    /\ passiveserver \in BOOLEAN
    /\ srv = "basic"
    /\ sock = "open" /\ addr = ConnectAddr("h", DefaultFtpPort)
    /\ ctx = [p \in Procs |-> "top"]
    /\ maxUploads = 0 /\ useGoRoutines = FALSE /\ nfiles = 0
    /\ cbOn = [p \in Procs |-> FALSE]
    /\ swd = <<lo_h>> /\ pwd = [abs |-> FALSE, path |-> <<>>]
    /\ rootDir = [abs |-> FALSE, path |-> <<>>] /\ ltree = <<>> /\ excl = <<>>

NextResume == DownloadResumeFile \/ ResumeSteps(0)

SpecResume == InitResume /\ [][NextResume]_vars

\* ----------------------------------------------------------------- claims
Class(r) == FirstDigit(r.code)
IsTransfer(p) == op[p].name \in TransferOps
Returned(p) == pc[p] = "done"

\* C1: no command is written to the control channel while a reply to an
\* earlier command is still unread (a step that queues replies is a Send).
C1_OneOutstanding == [][Len(owed') > Len(owed) => owed = <<>>]_vars

\* C2: a transfer operation whose transferCmd succeeded has, when it returns,
\* opened exactly one data connection and consumed exactly one final reply
\* (the control connection being intact).
C2_OneConnOneFinal ==
    \A p \in Procs :
        (Returned(p) /\ IsTransfer(p) /\ tcOk[p] /\ ~broken)
            => (dials[p] = 1 /\ finals[p] = 1)

\* C4: Login sends USER, then PASS only after a class 3 reply to USER, then
\* ACCT only after a class 3 reply to PASS; nothing after a 4xx/5xx reply; it
\* succeeds exactly when the last reply received has class 2, and fails with
\* an error made from that reply otherwise.
C4_Login ==
    \A p \in Procs : op[p].name = "Login" =>
        LET s == sent[p]
            r == rcvd[p]
        IN /\ s = SubSeq(<<"USER", "PASS", "ACCT">>, 1, Len(s))
           /\ Len(r) <= Len(s)
           /\ \A i \in 2..Len(s) : Len(r) >= i - 1 /\ Class(r[i - 1]) = 3
           /\ \A i \in 1..Len(r) : Class(r[i]) >= 4 => Len(s) <= i
           /\ (Returned(p) /\ err[p] = NoErr) =>
                  (r # <<>> /\ Class(Last(r)) = 2 /\ resp[p] = Reply(Last(r).code, Last(r).msg))
           /\ (Returned(p) /\ err[p].kind # "io") =>
                  IF r # <<>> /\ Class(Last(r)) = 2 THEN err[p] = NoErr
                  ELSE /\ err[p].kind \in ReplyErrKinds
                       /\ err[p].text = Last(r).msg
                       /\ resp[p] = Nil

C4_Witness ==
    /\ Returned(0) /\ op[0].name = "Login" /\ err[0] = NoErr
    /\ sent[0] = <<"USER", "PASS", "ACCT">>

\* C5: Read returns a Response and no error exactly for a leading digit 1, 2
\* or 3; a temporary error for 4, a permanent error for 5, a protocol error
\* for any other digit; the error carries the reply text and comes with no
\* Response.
C5_ReadClasses ==
    \A p \in Procs : (Returned(p) /\ op[p].name = "Cmd" /\ rcvd[p] # <<>>) =>
        LET r == Last(rcvd[p])
            c == Class(r)
        IN /\ (resp[p] # Nil /\ err[p] = NoErr) <=> c \in {1, 2, 3}
           /\ c \in {1, 2, 3} => resp[p] = Reply(r.code, r.msg)
           /\ c \notin {1, 2, 3} =>
                 /\ resp[p] = Nil
                 /\ err[p].text = r.msg
                 /\ err[p].kind = IF c = 4 THEN "Temporary error"
                                  ELSE IF c = 5 THEN "Permanent error"
                                  ELSE "Protocol error"

C5_Witness ==
    /\ Returned(0) /\ op[0].name = "Cmd" /\ rcvd[0] # <<>>
    /\ Class(Last(rcvd[0])) = 9 /\ err[0].kind = "Protocol error"

\* C6: the final reply of a transfer is read only after the transfer's data
\* connection has been closed.
C6_CloseBeforeFinal ==
    \A p \in Procs :
        /\ pc[p] = "final.read" => conn[p] = "closed"
        /\ finals[p] > 0 => conn[p] = "closed"

C6_Witness == Returned(0) /\ op[0].name = "GetBytes" /\ finals[0] = 1 /\ conn[0] = "closed"

\* The replies read for the transfer command: the third command of a transfer
\* operation, after TYPE and PASV or PORT.
AfterCmd(p) == IsTransfer(p) /\ Len(sent[p]) = 3 /\ Len(rcvd[p]) >= 3

\* C7, without its last clause: one further reply is read exactly when the
\* first reply to the transfer command has class 2, and transferCmd succeeds
\* only with a class 1 reply in hand.
C7_ReadsAndSuccess ==
    \A p \in Procs : (AfterCmd(p) /\ ~broken) =>
        /\ (pc[p] \in {"stream", "tc.accept", "panic"} \/ (Returned(p) /\ finals[p] = 0))
              => Len(rcvd[p]) = IF Class(rcvd[p][3]) = 2 THEN 4 ELSE 3
        /\ tcOk[p] => getFirstChar(resp[p]) = 1

\* C7: ... and otherwise (the reply in hand is not of class 1) transferCmd
\* fails with a reply error.
C7_TransferCmdReply ==
    /\ C7_ReadsAndSuccess
    /\ \A p \in Procs : (AfterCmd(p) /\ ~broken /\ finals[p] = 0 /\ pc[p] \notin {"tc.cmd.read2"}) =>
          (Class(Last(rcvd[p])) # 1 => (Returned(p) /\ err[p].kind \in ReplyErrKinds))

\* C8: no data connection is left open when a transfer operation returns the
\* error of a failed negotiation (the transfer command was rejected, or its
\* reply was not of class 1).
C8_NoConnLeftOpen ==
    \A p \in Procs :
        (Returned(p) /\ IsTransfer(p) /\ err[p].kind \in ReplyErrKinds) => conn[p] # "open"

\* C9: a transfer starts with the TYPE round trip, TYPE A for the line
\* operations and TYPE I for the byte operations; only after its success is
\* anything else sent, a listener made or a data connection opened.
C9_TypeFirst ==
    \A p \in Procs : IsTransfer(p) =>
        LET s == sent[p]
            r == rcvd[p]
            typeOk == r # <<>> /\ Class(r[1]) \in {1, 2, 3}
        IN /\ s # <<>> => s[1] = (IF op[p].name \in {"GetLines", "StoreLines"}
                                  THEN "TYPE A" ELSE "TYPE I")
           /\ \A i \in 2..Len(s) : s[i] \notin TypeCmds
           /\ (Len(s) >= 2 \/ dials[p] > 0 \/ conn[p] # "nil" \/ lsn[p] # "nil") => typeOk
           /\ (Returned(p) /\ ~typeOk) => (Len(s) <= 1 /\ dials[p] = 0)

C9_Witness ==
    /\ Returned(0) /\ op[0].name = "GetLines" /\ sent[0] = <<"TYPE A">>
    /\ err[0].kind = "Permanent error" /\ dials[0] = 0

\* Where a process is inside SendAndRead: its command written, the reply to
\* it not yet read.
PairPcs == {"cmd.read", "USER.read", "PASS.read", "ACCT.read", "TYPE.read", "PASV.read",
            "PORT.read", "tc.cmd.read", "udt.pwd.read", "udt.cwd.read", "mkd.read",
            "cwd.read", "up.read", "back.read"}
InPair(p) == pc[p] \in PairPcs

\* C3: among the tasks that share the session, no task writes its command
\* while another task is between its command and the read of the reply, and
\* no task reads a reply to a command of another task.
C3_AtomicPairs ==
    /\ \A p, q \in Procs : (p # q /\ InPair(p)) => ~InPair(q)
    /\ \A p \in Procs : \A i \in 1..Len(rcvd[p]) : rcvd[p][i].by = p

\* The processes that hold a data connection, and the uploads under way.
OpenConns == {p \in Procs : conn[p] = "open"}
InFlight == {p \in Procs : IsTransfer(p) /\ pc[p] \notin {"idle", "sem.acquire", "upload",
                                                         "done", "release", "end", "panic"}}

\* C10: during UploadDirTree with worker count N (maxUploads), never more
\* than N data connections exist at once for the files of the directory.
C10_AtMostN == Cardinality(OpenConns) <= maxUploads

\* With the pool running, the uploads under way are never more than N ...
C10_InFlightBound == useGoRoutines => Cardinality(InFlight) <= maxUploads

\* ... while the data connections still exceed N, for N >= 1 as well.
C10_AtMostNPooled == useGoRoutines => Cardinality(OpenConns) <= maxUploads

\* C16: when Quit has returned the control socket is closed, whatever became
\* of the QUIT command (accepted, rejected, not written or not answered).
C16_QuitCloses ==
    \A p \in Procs : (Returned(p) /\ op[p].name = "Quit") => sock = "closed"

C16_Witness ==
    /\ Returned(0) /\ op[0].name = "Quit" /\ sent[0] = <<"QUIT">> /\ ~broken
    /\ err[0].kind = "Permanent error" /\ sock = "closed"

\* C17: Connect(host, port, proxy) dials host:port when port > 0 and host:21
\* when port <= 0; with an empty host it returns an error and dials nothing.
C17_ConnectAddr ==
    \A p \in Procs : (op[p].name = "Connect" /\ pc[p] \in {"Connect.read", "done"}) =>
        IF op[p].host = ""
        THEN addr = NoAddr /\ sock = "none" /\ err[p] # NoErr
        ELSE addr = [host |-> op[p].host,
                     port |-> IF op[p].port > 0 THEN op[p].port ELSE DefaultFtpPort]

\* The transfers that report to a callback.
Reports(p) == op[p].name \in StoreOps /\ cbOn[p]
EofCalls(c) == {i \in 1..Len(c) : c[i].Eof}

\* C19 as stated: in every StoreBytes or StoreLines transfer with a callback,
\* each invocation carries the bytes written so far, and when the transfer
\* has returned exactly one invocation had Eof, the last one.
C19_EofOnce ==
    \A p \in Procs : (Reports(p) /\ Returned(p) /\ tcOk[p]) =>
        /\ \A i \in 1..Len(cbs[p]) : cbs[p][i].BytesTransmitted = cbs[p][i].wrote
        /\ EofCalls(cbs[p]) = {Len(cbs[p])} /\ cbs[p] # <<>>

\* C19, amended: each invocation carries the bytes written so far, which
\* never decrease, and every write is reported before the next turn of the
\* loop; Eof is true on no invocation but the last, and on the last exactly
\* when the data phase has reached the end of the input.
C19_Callback ==
    \A p \in Procs : Reports(p) =>
        LET c == cbs[p] IN
        /\ \A i \in 1..Len(c) : c[i].BytesTransmitted = c[i].wrote
        /\ \A i, j \in 1..Len(c) : i < j => c[i].BytesTransmitted <= c[j].BytesTransmitted
        /\ pc[p] \in {"stream", "final.read"} =>
              Len(wrote[p]) = (IF c = <<>> THEN 0 ELSE Last(c).BytesTransmitted)
        /\ EofCalls(c) \subseteq {Len(c)}
        /\ pc[p] = "stream" => EofCalls(c) = {}
        /\ (pc[p] = "final.read" \/ finals[p] > 0) => (c # <<>> /\ Last(c).Eof)

C19_Witness ==
    /\ Reports(0) /\ Returned(0) /\ finals[0] = 1 /\ op[0].name = "StoreBytes"
    /\ Len(cbs[0]) = 3 /\ cbs[0][2].BytesTransmitted = 3 /\ ~cbs[0][2].Eof
    /\ cbs[0][3].BytesTransmitted = 3 /\ cbs[0][3].Eof

\* UploadDirTree has returned.
Exited == pc[0] = "U.done"
Events(what) == {i \in 1..Len(tlog) : tlog[i].what = what}
Range(l) == {l[i] : i \in 1..Len(l)}

\* C11: when UploadDirTree returns, with every CDUP and CWD it sent to go
\* back carried out by the server, the server's working directory is the
\* one of before the call.
C11_WdRestored ==
    (Exited /\ \A i \in Events("CDUP") \cup Events("restore") : tlog[i].ok) => swd = Home

\* C12: once the upload of a file has failed, UploadDirTree uploads no other
\* file and creates or enters no other directory (it only goes back), and it
\* returns that error with n the number of uploads that succeeded.
C12_StopAtFailure ==
    /\ \A i \in Events("uploaded") : ~tlog[i].ok =>
          \A j \in (i + 1)..Len(tlog) : tlog[j].what \in {"CDUP", "restore"}
    /\ (Exited /\ \E i \in Events("uploaded") : ~tlog[i].ok) =>
          (uerr # NoErr /\ uerr = err[0])
    /\ (Exited \/ pc[0] \in {"u.loop", "u.ret", "U.back"}) =>
          n = Cardinality({i \in Events("uploaded") : tlog[i].ok})

C12_Witness ==
    /\ Exited /\ ltree = <<Dir(up_S, <<File(lo_g)>>), File(lo_f)>> /\ excl = <<>>
    /\ \E i \in Events("uploaded") : ~tlog[i].ok /\ tlog[i].arg = RelName(lo_g)
    /\ n = 0 /\ uerr.kind = "Temporary error"

\* The files UploadDirTree has to upload: those of localDir and of its
\* subdirectories whose lowercased name is not in the exclusion set.
IsOut(e) == e.dir /\ ToLower(e.name) \in Range(excl)
Wanted == {ltree[k].name : k \in {j \in 1..Len(ltree) : ~ltree[j].dir}}
          \cup UNION {Range([j \in 1..Len(ltree[k].sub) |-> ltree[k].sub[j].name]) :
                         k \in {j \in 1..Len(ltree) : ltree[j].dir /\ ~IsOut(ltree[j])}}

\* C13: a subdirectory whose lowercased name is in the exclusion set gets no
\* MKD and no CWD, none of its files is uploaded, and a complete upload
\* counts only the files outside of such directories.
C13_ExcludedSkipped ==
    /\ \A k \in 1..Len(ltree) : IsOut(ltree[k]) =>
          \A i \in 1..Len(tlog) :
             /\ tlog[i].what \in {"MKD", "CWD", "CDUP"} => tlog[i].arg # RelName(ltree[k].name)
             /\ tlog[i].what = "UploadFile" =>
                   \A j \in 1..Len(ltree[k].sub) : tlog[i].arg # RelName(ltree[k].sub[j].name)
    /\ n <= Cardinality(Wanted)
    /\ (Exited /\ uerr = NoErr /\ Events("restore") # {}) => n = Cardinality(Wanted)

C13_Witness ==
    /\ Exited /\ uerr = NoErr /\ excl = <<lo_s, lo_t>> /\ Events("skip") # {}
    /\ ltree = <<Dir(lo_s, <<File(lo_g)>>), File(lo_f)>> /\ n = 1

\* C14: a subdirectory whose name equals an entry of the caller's
\* excludedDirs but for the case of its letters is skipped (no MKD for it).
C14_CaseInsensitive ==
    \A k \in 1..Len(ltree) :
        (ltree[k].dir /\ \E x \in Range(excl) : ToLower(x) = ToLower(ltree[k].name)) =>
            \A i \in Events("MKD") : tlog[i].arg # RelName(ltree[k].name)

\* C18: UploadDirTree returns no error only if the server carried out every
\* CWD and MKD the upload depends on (the CWD into remoteRootDir among them).
C18_ErrorReported ==
    (Exited /\ uerr = NoErr) => \A i \in Events("CWD") \cup Events("MKD") : tlog[i].ok

\* The invocations with Eof = true over the uploads of the call
RECURSIVE EofTotal(_)
EofTotal(l) == IF l = <<>> THEN 0 ELSE Head(l).eofs + EofTotal(Tail(l))

\* C20: after a successful UploadDirTree with a callback, the callback was
\* given Eof = true exactly n times, once by each uploaded file.
C20_EofPerFile ==
    /\ (Exited /\ uerr = NoErr /\ cbOn[0]) => EofTotal(tlog) = n
    /\ \A i \in Events("uploaded") : (cbOn[0] /\ tlog[i].ok) => tlog[i].eofs = 1

C20_Witness ==
    /\ Exited /\ uerr = NoErr /\ cbOn[0] /\ n = 2 /\ EofTotal(tlog) = 2

\* RemoveRemoteDirTree has returned.
Removed == pc[0] = "R.done"

\* The CWD into the directory given to the outermost call was rejected.
TargetRejected == Events("CWD") # {} /\ \A i \in Events("CWD") : ~tlog[i].ok /\ tlog[i].arg = rootDir

\* C15: when the server rejects the CWD into the directory given to
\* RemoveRemoteDirTree, no LIST, DELE or RMD is sent and the call returns
\* the value DIRECTORY_NON_EXISTENT itself.
C15_NonExistent ==
    (Events("CWD") # {} /\ ~tlog[CHOOSE i \in Events("CWD") : \A j \in Events("CWD") : i <= j].ok) =>
        /\ Events("LIST") \cup Events("DELE") \cup Events("RMD") = {}
        /\ pc[0] \in {"R.ret", "R.done"}
        /\ uerr = DIRECTORY_NON_EXISTENT

C15_Witness ==
    /\ Removed /\ TargetRejected /\ uerr = DIRECTORY_NON_EXISTENT
    /\ Len(tlog) = 3 /\ tlog[3].what = "restore"

\* C11, for RemoveRemoteDirTree: when it returns, with every CDUP and CWD it
\* sent to go back carried out, the working directory is the one of before.
C11_WdRestoredRemove ==
    (Removed /\ \A i \in Events("CDUP") \cup Events("restore") : tlog[i].ok) => swd = Home

\* C25: a transfer sends TYPE, then PASV or PORT (never both), then the
\* transfer command, and nothing else.  PORT is sent with the listener made;
\* the transfer command is sent only after the reply to PASV was a 227 with
\* an address and the dial succeeded, or after PORT was accepted; in active
\* mode the data connection is accepted only after the transfer command was
\* sent and answered.
C25_Steps ==
    \A p \in Procs : IsTransfer(p) =>
        LET s == sent[p]
            r == rcvd[p]
        IN /\ Len(s) <= 3
           /\ ~(\E i, j \in 1..Len(s) : s[i] = "PASV" /\ s[j] = "PORT")
           /\ Len(s) >= 2 => s[2] \in {"PASV", "PORT"}
           /\ (Len(s) >= 2 /\ s[2] = "PORT") => lsn[p] # "nil"
           /\ (Len(s) >= 2 /\ s[2] = "PASV") => lsn[p] = "nil"
           /\ dials[p] >= 1 => Len(r) >= 2
           /\ Len(s) = 3 =>
                 /\ s[3] = op[p].cmd
                 /\ Len(r) >= 2
                 /\ s[2] = "PASV" => (r[2].code = 227 /\ r[2].msg \in {"hostport", "otherhost"} /\ dials[p] = 1)
                 /\ s[2] = "PORT" => Class(r[2]) \in {1, 2, 3}
           /\ (Len(s) >= 2 /\ s[2] = "PORT" /\ conn[p] # "nil") =>
                 (Len(s) = 3 /\ Len(r) >= 3 /\ lsn[p] = "closed")

C25_Witness ==
    /\ Returned(0) /\ op[0].name = "GetBytes" /\ err[0] = NoErr
    /\ sent[0] = <<"TYPE I", "PORT", "RETR">> /\ dials[0] = 1 /\ lsn[0] = "closed"

\* C26: when a transfer operation has returned, no listener made for it is
\* open.
C26_NoListenerLeft ==
    \A p \in Procs : (Returned(p) /\ IsTransfer(p)) => lsn[p] # "open"

\* The entries e in an ascending order of their names
Asc(e) ==
    LET P == {f \in [1..Len(e) -> 1..Len(e)] :
                 /\ \A i, j \in 1..Len(e) : i # j => f[i] # f[j]
                 /\ \A i, j \in 1..Len(e) : i < j => ~StrLess(e[f[j]].name, e[f[i]].name)}
        f == CHOOSE g \in P : TRUE
    IN [i \in 1..Len(e) |-> e[f[i]]]

\* What a complete uploadDirTree of the directory nm with the entries e
\* sends and uploads, in order.
RECURSIVE Trav(_, _)
RECURSIVE TravAll(_)
Trav(nm, e) == <<<<"MKD", RelName(nm)>>, <<"CWD", RelName(nm)>>>> \o TravAll(Asc(e))
               \o <<<<"CDUP", RelName(nm)>>>>
TravAll(e) ==
    IF e = <<>> THEN <<>>
    ELSE (IF ~Head(e).dir THEN <<<<"uploaded", RelName(Head(e).name)>>>>
          ELSE IF ToLower(Head(e).name) \in Range(excl) THEN <<>>
          ELSE Trav(Head(e).name, Head(e).sub)) \o TravAll(Tail(e))

\* The commands and uploads of uploadDirTree so far, those of kind in k
Done(k) ==
    LET I == {i \in 3..Len(tlog) : tlog[i].what \in k}
        RECURSIVE Pick(_)
        Pick(i) == IF i > Len(tlog) THEN <<>>
                   ELSE (IF i \in I THEN <<<<tlog[i].what, tlog[i].arg>>>> ELSE <<>>) \o Pick(i + 1)
    IN Pick(3)
Forward == {"MKD", "CWD", "uploaded"}
Only(l, k) == SelectSeq(l, LAMBDA x : x[1] \in k)
IsPrefix(a, b) == Len(a) <= Len(b) /\ a = SubSeq(b, 1, Len(a))

\* C27: uploadDirTree sends MKD and CWD for the directory, handles its
\* entries in the ascending order of their names (a file is uploaded with
\* StoreBytes, a subdirectory that is not excluded is handled to its end
\* before the next entry), and then sends CDUP; after a rejected MKD or CWD
\* it uploads nothing of the directory and sends no CDUP for it.
C27_Order ==
    /\ IsPrefix(Done(Forward), Only(Trav(lo_d, ltree), Forward))
    /\ (Exited /\ uerr = NoErr /\ Events("restore") # {}) =>
          Done(Forward \cup {"CDUP"}) = Trav(lo_d, ltree)
    /\ \A i \in Events("MKD") \cup (Events("CWD") \ {2}) : ~tlog[i].ok =>
          \A j \in (i + 1)..Len(tlog) :
              tlog[j].what \in {"CDUP", "restore"} /\ tlog[j].arg # tlog[i].arg
    /\ (pc[0] \notin {"U.pwd", "U.cwd", "u.mkd", "u.cwd", "u.loop", "u.ret", "U.back", "U.done", "panic", "done"}
        \/ (pc[0] = "done" /\ op[0] # NoOp)) =>
          (op[0].name = "StoreBytes" /\ (sent[0] # <<>> => sent[0][1] = "TYPE I"))

C27_Witness ==
    /\ Exited /\ uerr = NoErr /\ excl = <<>> /\ n = 2
    /\ ltree = <<Dir(lo_s, <<File(lo_g)>>), File(lo_f)>>
    /\ Done(Forward \cup {"CDUP"}) =
          <<<<"MKD", RelName(lo_d)>>, <<"CWD", RelName(lo_d)>>, <<"uploaded", RelName(lo_f)>>,
            <<"MKD", RelName(lo_s)>>, <<"CWD", RelName(lo_s)>>, <<"uploaded", RelName(lo_g)>>,
            <<"CDUP", RelName(lo_s)>>, <<"CDUP", RelName(lo_d)>>>>

\* The requests put on the queue whose result the orchestrator has not
\* received, and the places where the orchestrator is inside a MKD, CWD or
\* CDUP round trip or about to send one.
Pending == {p \in Workers : useGoRoutines /\ p <= idx /\ (p > coll \/ result[p] = "none")}
StructPcs == {"mkd.send", "mkd.read", "cwd.send", "cwd.read", "up.send", "up.read",
              "back.send", "back.read"}

\* C28: with the pool, the orchestrator sends no MKD, CWD or CDUP while a
\* request of the directory is without its result: the requests are put on
\* the queue in one batch, and every result is received before the
\* directory is left.
C28_Batch ==
    useGoRoutines =>
        /\ pc[0] \in StructPcs => Pending = {}
        /\ pc[0] \in {"up.send", "up.read"} => (idx = nfiles /\ coll = nfiles)
        /\ coll > 0 => idx = nfiles
        /\ \A p \in Workers : pc[p] \notin {"idle", "sem.acquire", "upload", "release", "end", "panic"}
              => pc[0] \in {"dispatch", "collect"}

C28_Witness ==
    /\ useGoRoutines /\ pc[0] = "up.read" /\ nfiles = 2 /\ coll = 2
    /\ \A p \in Workers : result[p] # "none"

\* The upload of request p is under way, and it has returned.
Uploading(p) == pc[p] \notin {"idle", "sem.acquire", "upload", "done", "release", "end"}
Uploaded(p) == pc[p] \in {"done", "release", "end"}
Terminating == \A p \in Workers : [](Uploading(p) => <>Uploaded(p))

\* C29: with the pool and a worker count of at least 1, if every upload that
\* starts returns, then every request put on the queue gets a result, which
\* is never replaced by another, and UploadDirTree returns (quit <- true
\* included).
C29_PoolEnds ==
    /\ [][\A p \in Workers : result[p] # "none" => result'[p] = result[p]]_vars
    /\ Terminating =>
          (useGoRoutines => <>(pc[0] = "udt.done" /\ \A p \in Workers : p <= idx => result[p] # "none"))

C29_Witness ==
    /\ useGoRoutines /\ pc[0] = "udt.done" /\ nfiles = 2 /\ maxUploads = 1
    /\ \A p \in Workers : result[p] # "none" /\ pc[p] = "end"

\* What removeRemoteDirTree has to do with the line l before the RMD
ToDo(l) == IF l.name \in {Dot, DotDot} THEN "continue"
           ELSE IF l.perm[1] = 100 THEN "RemoveRemoteDirTree" ELSE "Delete"

Streamed(p) == pc[p] = "final.read" \/ (Returned(p) /\ tcOk[p] /\ err[p] = NoErr)

\* C21: StoreBytes writes to the data connection, and GetBytes to its
\* writer, the bytes of the input in their order and no others: a prefix of
\* the input at any time, and the whole input, its last partial block
\* included, once the loop has ended at the end of the input.
C21_SameBytes ==
    \A p \in Procs : op[p].name \in {"StoreBytes", "GetBytes"} =>
        /\ IsPrefix(wrote[p], given[p])
        /\ Streamed(p) => wrote[p] = given[p]

C21_Witness ==
    /\ op[0].name = "GetBytes" /\ Returned(0) /\ err[0] = NoErr
    /\ buf[0] = <<9, 8>> /\ wrote[0] = <<7, 8, 9>>

\* The lines, each followed by CR LF.
RECURSIVE CrLf(_)
CrLf(lines) == IF lines = <<>> THEN <<>> ELSE Head(lines) \o <<13, 10>> \o CrLf(Tail(lines))

\* C22: StoreLines writes each line of the input to the data connection
\* followed by CR LF.
C22_CrLf ==
    \A p \in Procs : (op[p].name = "StoreLines" /\ Streamed(p)) =>
        wrote[p] = CrLf(ReadLine(given[p], <<>>))

\* ------------------------------------------------------------ the Writer
\* Calls of PrintfLine on one Writer.
MaxCalls == 2

\* The size of the buffer of the bufio.Writer that NewWriter is given.
WBufSize == 4

\* The bytes the writer under the bufio.Writer accepts before it fails.
MaxRoom == 30

\* strconv of an int, as fmt does for %d
RECURSIVE Itoa(_)
Itoa(k) ==
    IF k < 0 THEN <<45>> \o Itoa(-k)
    ELSE IF k < 10 THEN <<48 + k>>
    ELSE Itoa(k \div 10) \o <<48 + (k % 10)>>

\* "%!d(MISSING)", what fmt writes for a verb that has no operand
Missing == <<37, 33, 100, 40, 77, 73, 83, 83, 73, 78, 71, 41>>

\* "%!(NOVERB)", what fmt writes for a % that ends the format
NoVerb == <<37, 33, 40, 78, 79, 86, 69, 82, 66, 41>>

\* The text fmt.Fprintf makes of format and args: the bytes of the format,
\* each %d replaced by the next operand in decimal and %% by a %.
RECURSIVE Sprintf(_, _)
Sprintf(format, args) ==
    IF format = <<>> THEN <<>>
    ELSE IF format = <<37>> THEN NoVerb
    ELSE IF Head(format) = 37 /\ format[2] = 37
    THEN <<37>> \o Sprintf(SubSeq(format, 3, Len(format)), args)
    ELSE IF Head(format) = 37 /\ Len(format) >= 2 /\ format[2] = 100
    THEN IF args = <<>>
         THEN Missing \o Sprintf(SubSeq(format, 3, Len(format)), args)
         ELSE Itoa(Head(args)) \o Sprintf(SubSeq(format, 3, Len(format)), Tail(args))
    ELSE <<Head(format)>> \o Sprintf(Tail(format), args)

\* The calls made: "foo %d" with 123 (the one of TestPrintfLine), "%d" with
\* 7, an empty format, "abc", "%d%d" with -1 and 20, "%d" with no operand.
\* No call has more operands than verbs.
Calls ==
    {[format |-> <<102, 111, 111, 32, 37, 100>>, args |-> <<123>>],
     [format |-> <<37, 100>>, args |-> <<7>>],
     [format |-> <<>>, args |-> <<>>],
     [format |-> <<97, 98, 99>>, args |-> <<>>],
     [format |-> <<37, 100, 37, 100>>, args |-> <<-1, 20>>],
     [format |-> <<37, 100>>, args |-> <<>>]}

\* Write of the writer under the bufio.Writer: it takes the bytes it has
\* room for, and fails if those are not all.
wrWrite(b, p) ==
    IF Len(p) <= b.room
    THEN [b EXCEPT !.under = @ \o p, !.room = @ - Len(p)]
    ELSE [b EXCEPT !.under = @ \o SubSeq(p, 1, b.room), !.room = 0,
                   !.err = IoErr, !.failed = TRUE]

\* w.W.Flush(): nothing after an earlier error or with an empty buffer; else
\* the buffer goes to the writer below, and what that did not take stays.
Flush(b) ==
    IF b.err # NoErr \/ b.buf = <<>> THEN b
    ELSE LET c == wrWrite(b, b.buf)
             k == Len(c.under) - Len(b.under)
         IN [c EXCEPT !.buf = SubSeq(b.buf, k + 1, Len(b.buf))]

\* w.W.Write(p) of bufio: while p does not fit, it goes straight to the
\* writer below if the buffer is empty, and else fills the buffer, which
\* is flushed; the rest is kept in the buffer.  Nothing after an error.
RECURSIVE Write(_, _)
Write(b, p) ==
    IF Len(p) > WBufSize - Len(b.buf) /\ b.err = NoErr
    THEN IF b.buf = <<>>
         THEN LET c == wrWrite(b, p)
                  k == Len(c.under) - Len(b.under)
              IN Write(c, SubSeq(p, k + 1, Len(p)))
         ELSE LET k == WBufSize - Len(b.buf)
                  c == Flush([b EXCEPT !.buf = @ \o SubSeq(p, 1, k)])
              IN Write(c, SubSeq(p, k + 1, Len(p)))
    ELSE IF b.err # NoErr THEN b
    ELSE [b EXCEPT !.buf = @ \o p]

\* var crnl = []byte{'\r', '\n'}
nl == <<10>>

crnl == <<13, 10>>

\* func (w *Writer) PrintfLine(format string, args ...interface{}) error:
\* the results of Fprintf and of Write are dropped, that of Flush returned.
PrintfLine ==
    /\ Len(writer.lines) < MaxCalls
    /\ \E c \in Calls :
           LET b1 == Write(writer, Sprintf(c.format, c.args))
               b2 == Write(b1, crnl)
               b3 == Flush(b2)
           IN writer' = [b3 EXCEPT !.ret = b3.err, !.lines = Append(@, c)]
    /\ UNCHANGED <<pc, op, resp, err, sent, rcvd, data, owed, broken, passiveserver, srv,
                   sess, rd, given, buf, cbOn, tot, wrote, cbs, offset, dialed, codec, reader, said, size, tree, pool>>

\* NewWriter(bufio.NewWriter(under)): nothing buffered or written yet.
InitWriter ==
    /\ TypeInit
    /\ reader = NoReader
    /\ codec = NoCodec
    /\ writer \in {[NoWriter EXCEPT !.room = r] : r \in 0..MaxRoom}
    /\ stack = <<>>
    /\ sock = "none" /\ addr = NoAddr
    /\ swd = <<lo_h>> /\ pwd = [abs |-> FALSE, path |-> <<>>]
    /\ rootDir = [abs |-> FALSE, path |-> <<>>] /\ ltree = <<>> /\ excl = <<>>
    /\ cbOn = [p \in Procs |-> FALSE]
    /\ pc = [p \in Procs |-> "idle"]
    /\ owed = <<>>
    /\ broken = FALSE
    /\ passiveserver = TRUE
    /\ srv = "full"
    /\ ctx = [p \in Procs |-> "top"]
    /\ maxUploads = 0 /\ useGoRoutines = FALSE /\ nfiles = 0

NextWriter == PrintfLine

SpecWriter == InitWriter /\ [][NextWriter]_vars

\* The lines asked for so far, each formatted and followed by CR LF.
RECURSIVE Expect(_)
Expect(lines) ==
    IF lines = <<>> THEN <<>>
    ELSE Sprintf(Head(lines).format, Head(lines).args) \o <<13, 10>> \o Expect(Tail(lines))

\* C24: after a call of PrintfLine, if the writer below accepted all it was
\* given, the call returned nil, the writer below holds the formatted text
\* of every call so far, each followed by "\r\n", and nothing is left in the
\* buffer.
C24_PrintfLine ==
    (writer.lines # <<>> /\ ~writer.failed) =>
        /\ writer.ret = NoErr
        /\ writer.under = Expect(writer.lines)
        /\ writer.buf = <<>>

C24_Witness ==
    /\ Len(writer.lines) = 2 /\ ~writer.failed /\ writer.ret = NoErr
    /\ writer.under = <<97, 98, 99, 13, 10, 102, 111, 111, 32, 49, 50, 51, 13, 10>>

\* C23: a binary download resumed at offset K sends REST before PASV or
\* PORT, keeps the K bytes the local file holds and adds to them what the
\* data connection yields, so that after a loop that ended at the end of the
\* input the local file is the whole remote file, remoteSize - K bytes
\* longer than it was.
C23_Resume ==
    \A p \in Procs : op[p].name = "DownloadResumeFile" =>
        /\ \A i \in 1..Len(sent[p]) : sent[p][i] \in {"PASV", "PORT"} =>
               \E j \in 1..(i - 1) : sent[p][j] = RestCmd(offset[p])
        /\ IsPrefix(SubSeq(given[p], 1, offset[p]), wrote[p])
        /\ IsPrefix(wrote[p], given[p])
        /\ Streamed(p) => wrote[p] = given[p]

C23_Witness ==
    /\ op[0].name = "DownloadResumeFile" /\ Returned(0) /\ err[0] = NoErr /\ tcOk[0]
    /\ offset[0] = 1 /\ given[0] = <<7, 8, 9>> /\ wrote[0] = <<7, 8, 9>>
    /\ sent[0] = <<"TYPE I", "REST 1", "PASV", "RETR">>

\* The first CWD of the run, the one into the directory given to the
\* outermost call.
FirstCwd == CHOOSE i \in Events("CWD") : \A j \in Events("CWD") : i <= j

\* C31: RemoveRemoteDirTree returns DIRECTORY_NON_EXISTENT only when the
\* CWD into the directory it was given was rejected.
C31_OnlyTarget ==
    (Removed /\ uerr = DIRECTORY_NON_EXISTENT) =>
        (Events("CWD") # {} /\ ~tlog[FirstCwd].ok /\ tlog[FirstCwd].arg = rootDir)

\* C32: when the first reply to the transfer command has class 2 and the
\* next one has class 4 or 5, or the read of it fails, transferCmd returns
\* an error: the operation has returned with that error, without success.
C32_SecondReplyError ==
    \A p \in Procs :
        (/\ AfterCmd(p) /\ Class(rcvd[p][3]) = 2 /\ pc[p] # "tc.cmd.read2"
         /\ Len(rcvd[p]) = 3 \/ Class(rcvd[p][4]) \in {4, 5}) =>
            (Returned(p) /\ err[p] # NoErr /\ ~tcOk[p])

\* C33: whenever Size has sent SIZE and the reply has class 4 or 5, or the
\* write or the read failed, Size returns an error and no size.
C33_SizeError ==
    \A p \in Procs :
        (/\ op[p].name = "Size" /\ pc[p] \notin {"SIZE.send", "SIZE.read"}
         /\ rcvd[p] = <<>> \/ Class(rcvd[p][1]) \in {4, 5}) =>
            (Returned(p) /\ err[p] # NoErr /\ size[p] = 0)

\* The address of the server as the control connection reaches it.
RemoteHost == "10.0.0.1"

\* C34: in passive mode the data connection is dialed only after a 227
\* reply that parses, to the port of that reply, and to the host of that
\* reply when it is the remote endpoint of the control connection, else to
\* the host that Connect was given.
C34_PasvDial ==
    \A p \in Procs :
        /\ (passiveserver /\ dials[p] > 0) => dialed[p] # NoDial
        /\ dialed[p] # NoDial =>
            LET r == rcvd[p][2]
            IN /\ r.code = 227 /\ r.msg \in {"hostport", "otherhost"}
               /\ dialed[p].port = 200 * 256 + 56
               /\ dialed[p].host = IF r.msg = "hostport" THEN RemoteHost ELSE addr.host

\* C35: no step of UploadDirTree changes the caller's slice excludedDirs,
\* neither its contents nor their order.
C35_ExclusionsKept == [][excl' = excl]_vars

\* ------------------------------------------------------------------ Send
\* Calls of Send.
MaxSends == 1

\* cmd.String(): "CWD", "RETR" and "STOR"
Verbs == {<<67, 87, 68>>, <<82, 69, 84, 82>>, <<83, 84, 79, 82>>}

\* The parameters given: "a", " a ", "", two blanks, "a b", "5%" and "%d";
\* a call has none, one or two, and "5%" is given as the last one only.
Params == {<<97>>, <<32, 97, 32>>, <<>>, <<32, 32>>, <<97, 32, 98>>, <<53, 37>>, <<37, 100>>}
ParamLists ==
    {<<>>} \cup {<<a>> : a \in Params} \cup {<<a, b>> : a \in Params \ {<<53, 37>>}, b \in Params}

\* strings.TrimSpace, for the white space of ASCII
IsSpace(c) == c \in {9, 10, 11, 12, 13, 32}

RECURSIVE TrimLeft(_)
TrimLeft(s) == IF s # <<>> /\ IsSpace(Head(s)) THEN TrimLeft(Tail(s)) ELSE s

RECURSIVE TrimRight(_)
TrimRight(s) == IF s # <<>> /\ IsSpace(s[Len(s)]) THEN TrimRight(SubSeq(s, 1, Len(s) - 1)) ELSE s

TrimSpace(s) == TrimRight(TrimLeft(s))

\* func (i FtpCmd) AppendParameters(pars ...string) string: the verb and the
\* trimmed parameters that are not empty, joined by " "
RECURSIVE AppendParameters(_, _)
AppendParameters(verb, pars) ==
    IF pars = <<>> THEN verb
    ELSE AppendParameters(IF TrimSpace(Head(pars)) # <<>>
                          THEN verb \o <<32>> \o TrimSpace(Head(pars)) ELSE verb,
                          Tail(pars))

\* func (ftp *FTP) Send(cmd FtpCmd, params ...string): fullCmd is the verb,
\* or AppendParameters when there are parameters, and goes to
\* ftp.textprotoConn.PrintfLine as its format, with no operands.
Send ==
    /\ Len(said) < MaxSends
    /\ \E verb \in Verbs, params \in ParamLists :
           LET fullCmd == IF Len(params) > 0 THEN AppendParameters(verb, params) ELSE verb
               b1 == Write(writer, Sprintf(fullCmd, <<>>))
               b2 == Write(b1, crnl)
               b3 == Flush(b2)
           IN /\ writer' = [b3 EXCEPT !.ret = b3.err]
              /\ said' = Append(said, [verb |-> verb, params |-> params])
    /\ UNCHANGED <<pc, op, resp, err, sent, rcvd, data, owed, broken, passiveserver, srv,
                   sess, rd, given, buf, cbOn, tot, wrote, cbs, offset, dialed, codec, reader, size, tree, pool>>

\* A connected FTP: textproto.NewConn(c), nothing written yet.
InitSend ==
    /\ TypeInit
    /\ reader = NoReader
    /\ codec = NoCodec
    /\ writer = [NoWriter EXCEPT !.room = (MaxSends + 1) * MaxRoom]
    /\ stack = <<>>
    /\ sock = "open" /\ addr = ConnectAddr("h", DefaultFtpPort)
    /\ swd = <<lo_h>> /\ pwd = [abs |-> FALSE, path |-> <<>>]
    /\ rootDir = [abs |-> FALSE, path |-> <<>>] /\ ltree = <<>> /\ excl = <<>>
    /\ cbOn = [p \in Procs |-> FALSE]
    /\ pc = [p \in Procs |-> "idle"]
    /\ owed = <<>>
    /\ broken = FALSE
    /\ passiveserver = TRUE
    /\ srv = "full"
    /\ ctx = [p \in Procs |-> "top"]
    /\ maxUploads = 0 /\ useGoRoutines = FALSE /\ nfiles = 0

NextSend == Send

SpecSend == InitSend /\ [][NextSend]_vars

\* The line of a command: the verb, a space and the trimmed text of each
\* parameter that is not blank, then CR LF.
RECURSIVE Joined(_)
Joined(pars) ==
    IF pars = <<>> THEN <<>>
    ELSE (IF TrimSpace(Head(pars)) = <<>> THEN <<>> ELSE <<32>> \o TrimSpace(Head(pars)))
         \o Joined(Tail(pars))

RECURSIVE WireOf(_)
WireOf(cmds) ==
    IF cmds = <<>> THEN <<>>
    ELSE Head(cmds).verb \o Joined(Head(cmds).params) \o <<13, 10>> \o WireOf(Tail(cmds))

\* C36: what Send has written to the control channel is, for each call, the
\* verb followed by the trimmed parameters that are not blank, each after
\* one space and byte for byte as given, and then CR LF.
C36_SendVerbatim == (said # <<>> /\ ~writer.failed) => writer.under = WireOf(said)

\* --------------------------------------------------------- readMultiLine
\* The lines of the control connection that one call may find, at most.
MaxLines == 3

\* The lines the server may send: "230-a", "230 b", "2301", "231 c", "abcd"
\* and "ab".
ReplyLines == {<<50, 51, 48, 45, 97>>, <<50, 51, 48, 32, 98>>, <<50, 51, 48, 49>>,
               <<50, 51, 49, 32, 99>>, <<97, 98, 99, 100>>, <<97, 98>>}

\* reader.readLine(): the next line without its CR LF, or no line and
\* os.EOF when the connection has ended.
readLine(r) ==
    IF r.in = <<>> THEN [line |-> <<>>, eof |-> TRUE]
    ELSE [line |-> Head(r.in), eof |-> FALSE]

\* nextline[:3] == code && nextline[3:4] != "-"
Ends(nextline, code) == SubSeq(nextline, 1, 3) = code /\ nextline[4] # 45

\* The slices that the test of the end takes lie within the line.
InRange(nextline, code) ==
    Len(nextline) >= 3 /\ (SubSeq(nextline, 1, 3) = code => Len(nextline) >= 4)

\* readMultiLine, to its first test: the first line is read, and
\* line[3:4] == "-" tells whether more lines follow; a line of fewer than
\* 4 bytes is sliced beyond its end.
readMultiLine_first ==
    /\ reader.at = "start"
    /\ LET l == readLine(reader)
           r == [reader EXCEPT !.in = IF l.eof THEN @ ELSE Tail(@),
                               !.took = IF l.eof THEN @ ELSE Append(@, l.line),
                               !.line = l.line]
       IN reader' = IF Len(l.line) < 4 THEN [r EXCEPT !.at = "panic"]
                    ELSE IF l.line[4] = 45
                    THEN [r EXCEPT !.code = SubSeq(l.line, 1, 3), !.at = "loop"]
                    ELSE [r EXCEPT !.at = "done"]
    /\ UNCHANGED <<pc, op, resp, err, sent, rcvd, data, owed, broken, passiveserver, srv,
                   sess, rd, given, buf, cbOn, tot, wrote, cbs, offset, dialed, codec, said,
                   size, writer, tree, pool>>

\* One turn of the loop: the next line is added after a "\n", and the loop
\* ends at a line that starts with the code and has no "-" after it, or at
\* os.EOF.
readMultiLine_next ==
    /\ reader.at = "loop"
    /\ LET l == readLine(reader)
           r == [reader EXCEPT !.in = IF l.eof THEN @ ELSE Tail(@),
                               !.took = IF l.eof THEN @ ELSE Append(@, l.line),
                               !.line = @ \o <<10>> \o l.line]
       IN reader' = IF ~InRange(l.line, reader.code) THEN [r EXCEPT !.at = "panic"]
                    ELSE IF Ends(l.line, reader.code) \/ l.eof THEN [r EXCEPT !.at = "done"]
                    ELSE r
    /\ UNCHANGED <<pc, op, resp, err, sent, rcvd, data, owed, broken, passiveserver, srv,
                   sess, rd, given, buf, cbOn, tot, wrote, cbs, offset, dialed, codec, said,
                   size, writer, tree, pool>>

\* NewFtpReader(ftp.conn), with the lines the server has sent.
InitReader ==
    /\ TypeInit
    /\ codec = NoCodec
    /\ writer = NoWriter
    /\ reader \in {[NoReader EXCEPT !.in = ls, !.at = "start"] :
                      ls \in UNION {[1..k -> ReplyLines] : k \in 1..MaxLines}}
    /\ stack = <<>>
    /\ sock = "open" /\ addr = ConnectAddr("h", DefaultFtpPort)
    /\ swd = <<lo_h>> /\ pwd = [abs |-> FALSE, path |-> <<>>]
    /\ rootDir = [abs |-> FALSE, path |-> <<>>] /\ ltree = <<>> /\ excl = <<>>
    /\ cbOn = [p \in Procs |-> FALSE]
    /\ pc = [p \in Procs |-> "idle"]
    /\ owed = <<>>
    /\ broken = FALSE
    /\ passiveserver = TRUE
    /\ srv = "full"
    /\ ctx = [p \in Procs |-> "top"]
    /\ maxUploads = 0 /\ useGoRoutines = FALSE /\ nfiles = 0

NextReader == readMultiLine_first \/ readMultiLine_next

SpecReader == InitReader /\ [][NextReader]_vars

\* The lines joined by "\n".
RECURSIVE JoinLines(_)
JoinLines(ls) ==
    IF Len(ls) <= 1 THEN (IF ls = <<>> THEN <<>> ELSE ls[1])
    ELSE ls[1] \o <<10>> \o JoinLines(Tail(ls))

\* C37: a reply whose first line has "-" after its code has been assembled
\* only when the last line read starts with that code followed by a space;
\* no earlier line does, and the message is made of every line read.
C37_MultiLineEnd ==
    (reader.at = "done" /\ reader.took[1][4] = 45) =>
        LET k == Len(reader.took)
            code == SubSeq(reader.took[1], 1, 3)
        IN /\ k >= 2
           /\ SubSeq(reader.took[k], 1, 3) = code /\ reader.took[k][4] = 32
           /\ \A i \in 2..(k - 1) : ~(SubSeq(reader.took[i], 1, 3) = code /\ reader.took[i][4] = 32)
           /\ reader.line = JoinLines(reader.took)

\* ------------------------------------------- SendPort, parse227, parse257
\* The hosts SendPort is given: "10.0.0.1", "192.168.0.9" and "0.0.0.0".
HostSample == {<<49, 48, 46, 48, 46, 48, 46, 49>>,
               <<49, 57, 50, 46, 49, 54, 56, 46, 48, 46, 57>>,
               <<48, 46, 48, 46, 48, 46, 48>>}

PortSample == {0, 1, 20, 21, 255, 256, 257, 1024, 4096, 51256, 65280, 65535}

\* strings.Split(s, sep) for a separator of one byte
RECURSIVE Split(_, _, _)
Split(s, sep, part) ==
    IF s = <<>> THEN <<part>>
    ELSE IF Head(s) = sep THEN <<part>> \o Split(Tail(s), sep, <<>>)
    ELSE Split(Tail(s), sep, Append(part, Head(s)))

\* strings.Join(a, sep)
RECURSIVE StringsJoin(_, _)
StringsJoin(a, sep) ==
    IF a = <<>> THEN <<>>
    ELSE IF Len(a) = 1 THEN a[1]
    ELSE a[1] \o sep \o StringsJoin(Tail(a), sep)

\* The parameter of the PORT command that SendPort sends.
SendPortBytes(host, port) ==
    LET hbytes == Split(host, 46, <<>>)
        pbytes == <<Itoa(port \div 256), Itoa(port % 256)>>
    IN StringsJoin(hbytes \o pbytes, <<44>>)

\* The length of the run of digits that b starts with.
RECURSIVE Digits(_)
Digits(b) == IF b = <<>> \/ Head(b) \notin 48..57 THEN 0 ELSE 1 + Digits(Tail(b))

\* k groups ([0-9]+) with commas between them at the start of b: the groups,
\* or <<>> when b does not start so.
RECURSIVE MatchGroups(_, _)
MatchGroups(b, k) ==
    LET d == Digits(b) IN
    IF d = 0 THEN <<>>
    ELSE IF k = 1 THEN <<SubSeq(b, 1, d)>>
    ELSE IF Len(b) > d /\ b[d + 1] = 44
    THEN LET more == MatchGroups(SubSeq(b, d + 2, Len(b)), k - 1)
         IN IF more = <<>> THEN <<>> ELSE <<SubSeq(b, 1, d)>> \o more
    ELSE <<>>

\* re227.FindStringSubmatch(message)[1:]: the groups of the leftmost match,
\* or <<>> for nil.
RECURSIVE FindStringSubmatch(_)
FindStringSubmatch(b) ==
    IF b = <<>> THEN <<>>
    ELSE IF MatchGroups(b, 6) # <<>> THEN MatchGroups(b, 6)
    ELSE FindStringSubmatch(Tail(b))

\* strconv.Atoi of a run of digits that fits an int
RECURSIVE Atoi(_)
Atoi(b) == IF b = <<>> THEN 0 ELSE Atoi(SubSeq(b, 1, Len(b) - 1)) * 10 + (b[Len(b)] - 48)

\* parse227 with a port of p1 shifted by 7 bits.
parse227Shift7(code, message) ==
    LET numbers == FindStringSubmatch(message) IN
    IF code # 227 THEN [NoOut EXCEPT !.err = NewErrProto("message")]
    ELSE IF numbers = <<>> THEN [NoOut EXCEPT !.err = NewErrProto("No matching pattern")]
    ELSE [NoOut EXCEPT !.host = StringsJoin(SubSeq(numbers, 1, 4), <<46>>),
                       !.port = (Atoi(numbers[5]) * 128) + Atoi(numbers[6])]

\* parse227 on a response with its message as bytes.
parse227Message(code, message) ==
    LET numbers == FindStringSubmatch(message) IN
    IF code # 227 THEN [NoOut EXCEPT !.err = NewErrProto("message")]
    ELSE IF numbers = <<>> THEN [NoOut EXCEPT !.err = NewErrProto("No matching pattern")]
    ELSE [NoOut EXCEPT !.host = StringsJoin(SubSeq(numbers, 1, 4), <<46>>),
                       !.port = (Atoi(numbers[5]) * 256) + Atoi(numbers[6])]

\* The loop of parse257 from index i (from 0) of the message.
RECURSIVE dirname257(_, _)
dirname257(m, i) ==
    IF i >= Len(m) THEN <<>>
    ELSE IF m[i + 1] = 34
    THEN (IF i + 1 >= Len(m) \/ m[i + 2] # 34 THEN <<>> ELSE <<34>> \o dirname257(m, i + 2))
    ELSE <<m[i + 1]>> \o dirname257(m, i + 1)

\* parse257 on a response with its message as bytes: resp.Message[3:5] is
\* out of range for a message of fewer than 5 bytes.
parse257Message(code, message) ==
    IF code # 257 THEN [NoOut EXCEPT !.err = NewErrProto("message")]
    ELSE IF Len(message) < 5 THEN [NoOut EXCEPT !.panic = TRUE]
    ELSE IF SubSeq(message, 4, 5) # <<32, 34>> THEN NoOut
    ELSE [NoOut EXCEPT !.dirname = dirname257(message, 5)]

\* The messages of replies to PWD and MKD, as Read leaves them in
\* Response.Message, without the code: "/h" ok, "/a""b" ok, "/h", /h,
\* /home is cwd, and xyz "/h" ok and xyz "/a""b" (with the quotes).
Messages257 == {<<34, 47, 104, 34, 32, 111, 107>>,
                <<34, 47, 97, 34, 34, 98, 34, 32, 111, 107>>,
                <<34, 47, 104, 34>>,
                <<47, 104>>,
                <<47, 104, 111, 109, 101, 32, 105, 115, 32, 99, 119, 100>>,
                <<120, 121, 122, 32, 34, 47, 104, 34, 32, 111, 107>>,
                <<120, 121, 122, 32, 34, 47, 97, 34, 34, 98, 34>>}

\* The messages of replies to PASV that have no group of six numbers, and
\* one that has: ok, (1,2,3,4,5), (10,0,0,1,200,56).
Messages227 == {<<111, 107>>,
                <<40, 49, 44, 50, 44, 51, 44, 52, 44, 53, 41>>,
                <<40, 49, 48, 44, 48, 44, 48, 44, 49, 44, 50, 48, 48, 44, 53, 54, 41>>}

\* SendPort(host, port), to the parameter of the PORT command.
SendPort ==
    /\ codec.fn = "none"
    /\ \E host \in HostSample, port \in PortSample :
           codec' = [NoCodec EXCEPT !.fn = "SendPort", !.host = host, !.port = port,
                                    !.message = SendPortBytes(host, port)]
    /\ UNCHANGED <<pc, op, resp, err, sent, rcvd, data, owed, broken, passiveserver, srv,
                   sess, rd, given, buf, cbOn, tot, wrote, cbs, offset, dialed, reader, said,
                   size, writer, tree, pool>>

\* parse227 on a reply that carries, between brackets, the numbers that
\* SendPort has made, or on a reply of Messages227.
parse227Call ==
    /\ \/ /\ codec.fn = "SendPort"
          /\ LET message == <<40>> \o codec.message \o <<41>>
             IN codec' = [codec EXCEPT !.fn = "parse227", !.code = 227, !.message = message,
                                       !.out = parse227Message(227, message)]
       \/ /\ codec.fn = "none"
          /\ \E code \in {227, 200}, message \in Messages227 :
                 codec' = [NoCodec EXCEPT !.fn = "parse227", !.code = code, !.message = message,
                                          !.out = parse227Message(code, message)]
    /\ UNCHANGED <<pc, op, resp, err, sent, rcvd, data, owed, broken, passiveserver, srv,
                   sess, rd, given, buf, cbOn, tot, wrote, cbs, offset, dialed, reader, said,
                   size, writer, tree, pool>>

\* parse257 on a reply of class 1, 2 or 3.
parse257Call ==
    /\ codec.fn = "none"
    /\ \E code \in {257, 250}, message \in Messages257 :
           codec' = [NoCodec EXCEPT !.fn = "parse257", !.code = code, !.message = message,
                                    !.out = parse257Message(code, message)]
    /\ UNCHANGED <<pc, op, resp, err, sent, rcvd, data, owed, broken, passiveserver, srv,
                   sess, rd, given, buf, cbOn, tot, wrote, cbs, offset, dialed, reader, said,
                   size, writer, tree, pool>>

\* Pwd and Mkd after a SendAndRead without error: "" and no error for a
\* code other than 257, else parse257.
PwdMkd ==
    /\ codec.fn = "none"
    /\ \E fn \in {"Pwd", "Mkd"}, code \in {257, 250}, message \in Messages257 :
           codec' = [NoCodec EXCEPT !.fn = fn, !.code = code, !.message = message,
                                    !.out = IF code # 257 THEN NoOut
                                            ELSE parse257Message(code, message)]
    /\ UNCHANGED <<pc, op, resp, err, sent, rcvd, data, owed, broken, passiveserver, srv,
                   sess, rd, given, buf, cbOn, tot, wrote, cbs, offset, dialed, reader, said,
                   size, writer, tree, pool>>

\* ------------------------------------------------------------------ Mlsd
\* The lines of a listing, at most.
MaxListing == 2

\* The lines that GetLines has written to the stringSliceWriter, each with
\* the "\n" of Fprintln: "F a=1;b=2;", "g c=3;", "x" and "h k;".
ListingLines == {<<70, 32, 97, 61, 49, 59, 98, 61, 50, 59, 10>>,
                 <<103, 32, 99, 61, 51, 59, 10>>,
                 <<120, 10>>,
                 <<104, 32, 107, 59, 10>>}

\* The element of a []*NameFactsLine that make has set to nil.
NilLine == [nil |-> TRUE, Name |-> <<>>, Facts |-> <<>>]

\* vals after the first k of the facts: vals[fpair[0]] = fpair[1]
RECURSIVE Vals(_, _)
Vals(facts, k) ==
    IF k = 0 THEN <<>>
    ELSE LET fpair == Split(facts[k], 61, <<>>)
             vals == Vals(facts, k - 1)
         IN [f \in DOMAIN vals \cup {fpair[1]} |-> IF f = fpair[1] THEN fpair[2] ELSE vals[f]]

\* The body of the loop of Mlsd for the line l: tkns[1] and fpair[1] are out
\* of range for a line without a space and for a fact without "=".
NameFacts(l) ==
    LET tkns == Split(TrimSpace(l), 32, <<>>)
        facts == Split(tkns[2], 59, <<>>)
    IN IF Len(tkns) < 2 \/ \E i \in 1..(Len(facts) - 1) : Len(Split(facts[i], 61, <<>>)) < 2
       THEN [panic |-> TRUE, line |-> NilLine]
       ELSE [panic |-> FALSE,
             line |-> [nil |-> FALSE, Name |-> ToLower(tkns[1]), Facts |-> Vals(facts, Len(facts) - 1)]]

\* Mlsd after GetLines has returned without error: ls is made with one nil
\* for every line, and the loop appends one element for every line.
Mlsd ==
    /\ codec.fn = "none"
    /\ \E lines \in UNION {[1..k -> ListingLines] : k \in 0..MaxListing} :
           LET made == [i \in 1..Len(lines) |-> NilLine]
               ls == made \o [i \in 1..Len(lines) |-> NameFacts(lines[i]).line]
           IN codec' = [NoCodec EXCEPT !.fn = "Mlsd", !.lines = lines,
                            !.out = IF \E i \in 1..Len(lines) : NameFacts(lines[i]).panic
                                    THEN [NoOut EXCEPT !.panic = TRUE]
                                    ELSE [NoOut EXCEPT !.ls = ls]]
    /\ UNCHANGED <<pc, op, resp, err, sent, rcvd, data, owed, broken, passiveserver, srv,
                   sess, rd, given, buf, cbOn, tot, wrote, cbs, offset, dialed, reader, said,
                   size, writer, tree, pool>>

InitCodec ==
    /\ TypeInit
    /\ writer = NoWriter
    /\ reader = NoReader
    /\ codec = NoCodec
    /\ stack = <<>>
    /\ sock = "open" /\ addr = ConnectAddr("h", DefaultFtpPort)
    /\ swd = <<lo_h>> /\ pwd = [abs |-> FALSE, path |-> <<>>]
    /\ rootDir = [abs |-> FALSE, path |-> <<>>] /\ ltree = <<>> /\ excl = <<>>
    /\ cbOn = [p \in Procs |-> FALSE]
    /\ pc = [p \in Procs |-> "idle"]
    /\ owed = <<>>
    /\ broken = FALSE
    /\ passiveserver = TRUE
    /\ srv = "full"
    /\ ctx = [p \in Procs |-> "top"]
    /\ maxUploads = 0 /\ useGoRoutines = FALSE /\ nfiles = 0

NextCodec == SendPort \/ parse227Call \/ parse257Call \/ PwdMkd \/ Mlsd

SpecCodec == InitCodec /\ [][NextCodec]_vars

\* C38: for a 257 reply whose text starts with the quoted name, Pwd and Mkd
\* return the name with every doubled quote as one quote; for a 257 reply
\* whose text does not start with a quote they return "" and no error; and
\* parse257 fails with a protocol error for a code other than 257.
C38_QuotedName ==
    /\ (codec.fn \in {"Pwd", "Mkd"} /\ codec.code = 257 /\ Head(codec.message) = 34) =>
           /\ ~codec.out.panic /\ codec.out.err = NoErr
           /\ codec.out.dirname = dirname257(codec.message, 1)
    /\ (codec.fn \in {"Pwd", "Mkd"} /\ codec.code = 257 /\ Head(codec.message) # 34) =>
           ~codec.out.panic /\ codec.out.err = NoErr /\ codec.out.dirname = <<>>
    /\ (codec.fn = "parse257" /\ codec.code # 257) =>
           ~codec.out.panic /\ codec.out.err.kind = "Protocol error"

\* C39: SendPort sends the host with commas for its dots, then port div 256
\* and port mod 256; parse227 on a 227 reply with these six numbers gives
\* back the host and the port; parse227 gives h1.h2.h3.h4 and p1*256+p2 for
\* the numbers of a 227 reply, and a protocol error for another code or a
\* message without six numbers.
C39_PortRoundTrip ==
    /\ codec.fn = "SendPort" =>
           LET numbers == FindStringSubmatch(codec.message)
           IN /\ Len(numbers) = 6
              /\ Atoi(numbers[5]) = codec.port \div 256 /\ Atoi(numbers[6]) = codec.port % 256
              /\ Atoi(numbers[5]) \in 0..255 /\ Atoi(numbers[6]) \in 0..255
    /\ (codec.fn = "parse227" /\ codec.host # <<>>) =>
           codec.out.err = NoErr /\ codec.out.host = codec.host /\ codec.out.port = codec.port
    /\ (codec.fn = "parse227" /\ codec.host = <<>> /\ codec.code = 227 /\ Len(codec.message) = 17) =>
           /\ codec.out.err = NoErr /\ codec.out.port = 200 * 256 + 56
           /\ codec.out.host = <<49, 48, 46, 48, 46, 48, 46, 49>>
    /\ (codec.fn = "parse227" /\ codec.host = <<>> /\ (codec.code # 227 \/ Len(codec.message) < 17)) =>
           codec.out.err.kind = "Protocol error"

C39_Witness ==
    /\ codec.fn = "parse227" /\ codec.host # <<>>
    /\ codec.port = 51256 /\ codec.out.port = 51256 /\ codec.out.err = NoErr

\* C40: the slice Mlsd returns has one element for every line of the
\* listing, in the order of the lines, none of them nil, each with the name
\* of its line in lower case and the facts of its line.
C40_OnePerLine ==
    (codec.fn = "Mlsd" /\ ~codec.out.panic) =>
        /\ Len(codec.out.ls) = Len(codec.lines)
        /\ \A i \in 1..Len(codec.out.ls) :
               /\ ~codec.out.ls[i].nil
               /\ i <= Len(codec.lines) => codec.out.ls[i] = NameFacts(codec.lines[i]).line

====
